---- MODULE Spec2Model ----
(***************************************************************************)
(* State-machine model of the document ingestion core of py-gpt:           *)
(*   - DocumentCache            (core/document_cache.py)                    *)
(*   - DocumentProcessingService (core/document_processing_service.py)     *)
(*   - LoaderWorker / FileLoaderThread (ui/widget/file_loader_thread.py)   *)
(* Each subsystem has its own specification over the shared variables.     *)
(***************************************************************************)
EXTENDS Integers, Sequences, FiniteSets, TLC

(***************************************************************************)
(* Bounds of the model.                                                    *)
(***************************************************************************)
\* largest value of the logical clock standing for time.time()
MaxClock == 4
\* max_size_mb * 1024 * 1024, scaled down
MaxSizeBytes == 9
\* max_documents, scaled down
MaxDocuments == 3
\* number of load_async calls
MaxOps == 2
\* max_workers, scaled down
MaxWorkers == 2
\* number of add_file calls that reach the queue
MaxAdds == 2
\* number of loads made on one loader instance
MaxLoads == 2
\* largest number of chunks a source has
MaxChunks == 2
\* number of entries of the larger directory a LazyFileSystemModel shows
MaxEntries == 3
\* the ticks of the clock the loader reads
MaxTime == 4
\* number of sources whose metadata the service is asked to cache
MaxSources == 4
\* number of get_preview calls made on one loader
MaxPreviews == 2
\* largest number of characters a previewed source has
MaxTextLen == 3
\* largest max_lines a get_preview call is given
MaxLines == 2
\* most operations load_file registers
MaxOperations == 2

\* min() and max() of Python
Min(a, b) == IF a < b THEN a ELSE b

Max(a, b) == IF a > b THEN a ELSE b

(***************************************************************************)
(* DocumentCache: sources, file system, load results.                      *)
(***************************************************************************)
\* the modification times a file takes
Mtimes == {1, 2}

\* the files of the modelled file system
Files == {"fa"}

\* source strings callers pass: "a" names file fa by a relative path, "u" is
\* a URL-shaped source and "id" an opaque identifier (no files)
Sources == {"a", "u", "id"}

\* the cache keys these sources can get
CacheKeys == {"/a", "a", "u", "id"}

\* the file a source string names, "" for a non-file source
FileOf(source) ==
    CASE source = "a"  -> "fa"
      [] source = "/a" -> "fa"
      [] OTHER         -> ""

\* str(Path(source).resolve().absolute())
ResolveAbsolute(source) ==
    IF FileOf(source) = "fa" THEN "/a" ELSE source

\* len(str(metadata).encode('utf-8')), scaled down
MetadataSize == 1

\* a chunk of text: txt identifies what it holds, len is its utf-8 length
Chunk(t, n) == [txt |-> t, len |-> n]

\* LoadResult(success, content, metadata, load_time); isNone marks Python's None
LoadResult(ok, content, src, t) ==
    [success |-> ok, content |-> content, metadata |-> [source |-> src],
     load_time |-> t, isNone |-> FALSE]

NoneResult ==
    [success |-> FALSE, content |-> <<>>, metadata |-> [source |-> ""],
     load_time |-> 0, isNone |-> TRUE]

\* contents a caller hands to put(): two chunks, and a content that alone
\* exceeds max_size_bytes
PutContents ==
    { <<Chunk(8, 1), Chunk(9, 1)>>,
      <<Chunk(7, MaxSizeBytes)>> }

VARIABLES
    fs,                   \* file system: file -> [exists, mtime]
    clock,                \* time.time()
    cache,                \* DocumentCache._cache (OrderedDict, front = oldest)
    current_size_bytes,   \* DocumentCache._current_size_bytes
    stats,                \* DocumentCache.stats (hits, misses, evictions)
    enable_stats,         \* DocumentCache.enable_stats
    gpc,                  \* position of each thread inside DocumentCache.get
    gsrc,                 \* source argument of the get a thread is in
    gres,                 \* result local of the get a thread is in
    lastPut               \* history: key -> result of the last put still in force

cacheVars ==
    <<fs, clock, cache, current_size_bytes, stats, enable_stats,
      gpc, gsrc, gres, lastPut>>

VARIABLES
    svc_time,             \* time.time() as load_async reads it
    futures,              \* the Futures the executor handed out, in submit order
    active_loads,         \* DocumentProcessingService._active_loads
    active_lock,          \* holder of DocumentProcessingService._active_lock
    mpc,                  \* position of the thread calling the service
    m_op,                 \* load_async locals: operation_id and future
    ca_ids,               \* cancel_all_loads local: operation_ids still to visit
    cancelled_count,      \* cancel_all_loads local: cancelled_count
    progress_callback     \* _progress_callback of the loaders that hold one,
                          \* by source: the future whose on_progress it is

svcVars ==
    <<svc_time, futures, active_loads, active_lock, mpc, m_op, ca_ids,
      cancelled_count, progress_callback>>

VARIABLES
    queue,                \* FileLoaderThread._queue, in the order get serves it
    active_workers,       \* FileLoaderThread._active_workers: path -> worker
    workers,              \* the LoaderWorkers created, with their futures
    stop_event,           \* FileLoaderThread._stop_event
    executor,             \* FileLoaderThread._executor
    total_tasks,          \* FileLoaderThread._total_tasks
    completed_tasks,      \* FileLoaderThread._completed_tasks
    retry_counts,         \* FileLoaderThread._retry_counts
    dpc,                  \* position of the dispatcher thread inside run
    batch,                \* _process_batch local: items still to submit
    futs,                 \* _process_batch local: futures not yet collected
    upc,                  \* position of the client thread inside cancel_all
    signals,              \* load_started and load_finished emitted so far
    file_loaded,          \* file_loaded signals emitted, per path
    file_failed,          \* file_failed signals emitted, per path
    admitted,             \* add_file calls that queued the path, per path
    ptime                 \* time.time() at the last put into the queue

poolVars ==
    <<queue, active_workers, workers, stop_event, executor, total_tasks,
      completed_tasks, retry_counts, dpc, batch, futs, upc, signals,
      file_loaded, file_failed, admitted, ptime>>

VARIABLES
    enable_checksum,      \* UnifiedDocumentLoader.enable_checksum
    ld_metadata,          \* UnifiedDocumentLoader._metadata: the load it is of
    ld_hasher,            \* UnifiedDocumentLoader._hasher: the chunks it consumed
    ld_errors,            \* UnifiedDocumentLoader._errors: the error codes
    streams,              \* the generators load_stream returned, per load
    ld_results,           \* what load_complete returned, per load it ended
    ld_time,              \* time.time(), in ticks
    ld_last_callback_time \* UnifiedDocumentLoader._last_callback_time

loaderVars == <<enable_checksum, ld_metadata, ld_hasher, ld_errors, streams,
               ld_results, ld_time, ld_last_callback_time>>

VARIABLES
    lw,                   \* a LoaderWorker whose load is called on its own
    lw_tried              \* what _load_file did in each attempt of that call

workerVars == <<lw, lw_tried>>

VARIABLES
    root_path,            \* LazyFileSystemModel._root_path
    entries,              \* LazyFileSystemModel._entries: the file names
    total_count,          \* LazyFileSystemModel._total_count
    metadata_cache,       \* LRUMetadataCache._cache (OrderedDict, front = oldest)
    loaded_batches,       \* LazyFileSystemModel._loaded_batches
    watched,              \* the arguments of one earlier prefetch call
    repeated              \* the last call was prefetch with those arguments

lazyVars == <<root_path, entries, total_count, metadata_cache, loaded_batches,
              watched, repeated>>

VARIABLES
    svc_metadata_cache,   \* DocumentProcessingService._metadata_cache
    svc_access_order,     \* DocumentProcessingService._access_order
    ref_lru,              \* a reference LRU map given the same calls
    meta_inserted,        \* the cached keys in the order of their insertion
    meta_evicted          \* the key the last call evicted, and the oldest

metaVars == <<svc_metadata_cache, svc_access_order, ref_lru, meta_inserted,
              meta_evicted>>

VARIABLES
    chunk_size,           \* loader.chunk_size of the loader the previews use
    previews              \* the get_preview calls made, with their locals

previewVars == <<chunk_size, previews>>

VARIABLES
    lock_threads          \* the threads inside a call of FileLoaderThread, with
                          \* the locks each holds and the lock steps it has left

lockVars == <<lock_threads>>

VARIABLES
    manager               \* FileLoaderManager._instance, with what its thread
                          \* was given; empty while there is no instance

managerVars == <<manager>>

vars == <<cacheVars, svcVars, poolVars, loaderVars, workerVars, lazyVars,
          metaVars, previewVars, lockVars, managerVars>>

\* threads calling DocumentCache.get
CacheThreads == {"g1"}

\* os.path.exists(source)
PathExists(source) == FileOf(source) # "" /\ fs[FileOf(source)].exists

\* os.path.getmtime(source)
GetMtime(source) == fs[FileOf(source)].mtime

(***************************************************************************)
(* CacheEntry                                                              *)
(***************************************************************************)
RECURSIVE SumLen(_)
SumLen(content) ==
    IF content = <<>> THEN 0 ELSE Head(content).len + SumLen(Tail(content))

\* CacheEntry._calculate_size
CalculateSize(content) == SumLen(content) + MetadataSize

\* CacheEntry(...) with __post_init__
CacheEntry(key, result, modified, now) ==
    [key |-> key, content |-> result.content, metadata |-> result.metadata,
     last_accessed |-> now,
     size_bytes |-> CalculateSize(result.content),
     file_modified_at |-> modified]

\* is_stale as it would be if a missing file were not reported stale
IsStaleIgnoringMissing(entry, source) ==
    IF ~PathExists(source) THEN FALSE
    ELSE GetMtime(source) > entry.file_modified_at

\* CacheEntry.is_stale
IsStale(entry, source) ==
    IF ~PathExists(source) THEN TRUE
    ELSE GetMtime(source) > entry.file_modified_at

(***************************************************************************)
(* OrderedDict helpers                                                     *)
(***************************************************************************)
Keys(od) == { od[i].key : i \in 1..Len(od) }

IndexOf(od, key) == CHOOSE i \in 1..Len(od) : od[i].key = key

\* od[key] = entry: an existing key keeps its position, a new key goes last
SetItem(od, key, entry) ==
    IF key \in Keys(od)
    THEN [od EXCEPT ![IndexOf(od, key)] = entry]
    ELSE Append(od, entry)

\* del od[key]
DelItem(od, key) ==
    SelectSeq(od, LAMBDA e : e.key # key)

\* od.move_to_end(key)
MoveToEnd(od, key) ==
    Append(DelItem(od, key), od[IndexOf(od, key)])

RECURSIVE SumSizes(_)
SumSizes(od) ==
    IF od = <<>> THEN 0 ELSE Head(od).size_bytes + SumSizes(Tail(od))

(***************************************************************************)
(* DocumentCache                                                           *)
(***************************************************************************)
\* DocumentCache._make_cache_key
MakeCacheKey(source) ==
    IF PathExists(source) THEN ResolveAbsolute(source) ELSE source

\* DocumentCache._ensure_capacity: the loop, as a function of the dict, the
\* tracked size and the eviction counter
RECURSIVE EnsureCapacity(_, _, _, _)
EnsureCapacity(od, size, evictions, required_bytes) ==
    IF (size + required_bytes > MaxSizeBytes) \/ (Len(od) >= MaxDocuments)
    THEN IF od = <<>>
         THEN [od |-> od, size |-> size, evictions |-> evictions]
         ELSE EnsureCapacity(Tail(od), size - Head(od).size_bytes,
                             IF enable_stats THEN evictions + 1 ELSE evictions,
                             required_bytes)
    ELSE [od |-> od, size |-> size, evictions |-> evictions]

\* body of DocumentCache.put under the lock: the new dict, tracked size and
\* eviction counter
PutLocked(source, result) ==
    LET cache_key == MakeCacheKey(source)
        file_modified_at == IF PathExists(source) THEN GetMtime(source) ELSE 0
        entry == CacheEntry(cache_key, result, file_modified_at, clock + 1)
        ec == EnsureCapacity(cache, current_size_bytes, stats.evictions,
                             entry.size_bytes)
    IN  [od |-> SetItem(ec.od, cache_key, entry),
         size |-> ec.size + entry.size_bytes,
         evictions |-> ec.evictions,
         key |-> cache_key]

\* the history variable after a put of key: the put is in force for key, and
\* no longer for the keys that left the dict
LastPutAfter(od, key, result) ==
    [k \in CacheKeys |->
        IF k = key THEN result
        ELSE IF k \in Keys(od) THEN lastPut[k] ELSE NoneResult]

\* DocumentCache.put: the value the call returns
PutReturns(result) == ~(result.isNone \/ ~result.success)

\* DocumentCache.put, whole call
PutCall(source, result) ==
    IF ~PutReturns(result)
    THEN /\ UNCHANGED <<cache, current_size_bytes, stats, clock, lastPut>>
    ELSE LET p == PutLocked(source, result) IN
         /\ cache' = p.od
         /\ current_size_bytes' = p.size
         /\ stats' = [stats EXCEPT !.evictions = p.evictions]
         /\ clock' = clock + 1
         /\ lastPut' = LastPutAfter(p.od, p.key, result)


\* a caller's put(source, result)
Put(source, content, ok) ==
    /\ clock < MaxClock \/ ~PutReturns(LoadResult(ok, content, source, 1))
    /\ LET result == LoadResult(ok, content, source, 1) IN
       /\ PutCall(source, result)
    /\ UNCHANGED <<fs, enable_stats, gpc, gsrc, gres>>
    /\ UNCHANGED <<svcVars, poolVars, loaderVars, workerVars, lazyVars,
                   metaVars, previewVars, lockVars, managerVars>>

\* DocumentCache.get: whether the lookup under the lock is a hit
GetHit(source) ==
    /\ MakeCacheKey(source) \in Keys(cache)
    /\ ~IsStale(cache[IndexOf(cache, MakeCacheKey(source))], source)

\* DocumentCache.get: the LoadResult a hit returns
GetHitResult(source) ==
    LET entry == cache[IndexOf(cache, MakeCacheKey(source))] IN
    [success |-> TRUE, content |-> entry.content, metadata |-> entry.metadata,
     load_time |-> 0, isNone |-> FALSE]

\* DocumentCache.get, first part: the section under the lock.  A hit returns
\* from here; a miss goes on to load outside the lock.
GetBegin(t, source) ==
    /\ gpc[t] = "idle"
    /\ clock < MaxClock
    /\ clock' = clock + 1
    /\ IF GetHit(source)
       THEN LET cache_key == MakeCacheKey(source)
                i == IndexOf(cache, cache_key)
                entry == [cache[i] EXCEPT !.last_accessed = clock + 1]
            IN /\ cache' = MoveToEnd([cache EXCEPT ![i] = entry], cache_key)
               /\ stats' = IF enable_stats
                           THEN [stats EXCEPT !.hits = @ + 1] ELSE stats
               /\ UNCHANGED <<gpc, gsrc>>
       ELSE /\ stats' = IF enable_stats
                        THEN [stats EXCEPT !.misses = @ + 1] ELSE stats
            /\ gpc' = [gpc EXCEPT ![t] = "load"]
            /\ gsrc' = [gsrc EXCEPT ![t] = source]
            /\ UNCHANGED cache
    /\ UNCHANGED <<fs, current_size_bytes, enable_stats, gres, lastPut>>
    /\ UNCHANGED <<svcVars, poolVars, loaderVars, workerVars, lazyVars,
                   metaVars, previewVars, lockVars, managerVars>>

\* DocumentCache._load_document: what load_complete yields for the source as
\* it is now; a file's content is identified by its modification time
LoadedResult(source) ==
    IF FileOf(source) = ""
    THEN LoadResult(TRUE, <<Chunk(0, 1)>>, source, 1)
    ELSE LoadResult(TRUE, <<Chunk(GetMtime(source), 1)>>, source, 1)

\* DocumentCache.get, second part: _load_document outside the lock.  The
\* loader may be missing or raise (None), fail, or succeed.
GetLoad(t) ==
    /\ gpc[t] = "load"
    /\ \E outcome \in {"none", "fail", "ok"} :
         /\ (outcome = "ok") => (FileOf(gsrc[t]) = "" \/ PathExists(gsrc[t]))
         /\ gres' = [gres EXCEPT ![t] =
                CASE outcome = "none" -> NoneResult
                  [] outcome = "fail" -> LoadResult(FALSE, <<>>, gsrc[t], 1)
                  [] OTHER            -> LoadedResult(gsrc[t])]
    /\ gpc' = [gpc EXCEPT ![t] = "store"]
    /\ UNCHANGED <<fs, clock, cache, current_size_bytes, stats, enable_stats, gsrc, lastPut>>
    /\ UNCHANGED <<svcVars, poolVars, loaderVars, workerVars, lazyVars,
                   metaVars, previewVars, lockVars, managerVars>>

\* DocumentCache.get, last part: put the loaded result and return it
GetStore(t) ==
    /\ gpc[t] = "store"
    /\ clock < MaxClock \/ ~PutReturns(gres[t])
    /\ PutCall(gsrc[t], gres[t])
    /\ gpc' = [gpc EXCEPT ![t] = "idle"]
    /\ gsrc' = [gsrc EXCEPT ![t] = ""]
    /\ gres' = [gres EXCEPT ![t] = NoneResult]
    /\ UNCHANGED <<fs, enable_stats>>
    /\ UNCHANGED <<svcVars, poolVars, loaderVars, workerVars, lazyVars,
                   metaVars, previewVars, lockVars, managerVars>>

\* the history variable after keys left the dict
LastPutKeep(od) ==
    [k \in CacheKeys |-> IF k \in Keys(od) THEN lastPut[k] ELSE NoneResult]

\* DocumentCache.invalidate
Invalidate(source) ==
    LET cache_key == MakeCacheKey(source) IN
    /\ IF cache_key \in Keys(cache)
       THEN /\ current_size_bytes' =
                   current_size_bytes - cache[IndexOf(cache, cache_key)].size_bytes
            /\ cache' = DelItem(cache, cache_key)
       ELSE UNCHANGED <<cache, current_size_bytes>>
    /\ lastPut' = LastPutKeep(cache')
    /\ UNCHANGED <<fs, clock, stats, enable_stats, gpc, gsrc, gres>>
    /\ UNCHANGED <<svcVars, poolVars, loaderVars, workerVars, lazyVars,
                   metaVars, previewVars, lockVars, managerVars>>

\* glob patterns handed to invalidate_pattern
Patterns == {"*", "u*", "a"}

\* fnmatch.fnmatch(name, pattern) on the modelled names and patterns
FnMatch(name, pattern) ==
    CASE pattern = "*"  -> TRUE
      [] pattern = "u*" -> name \in {"u"}
      [] OTHER          -> name = pattern

\* removal of a list of keys, one by one, subtracting each entry's size
RECURSIVE RemoveKeys(_, _, _)
RemoveKeys(od, size, keys) ==
    IF keys = {} THEN [od |-> od, size |-> size]
    ELSE LET k == CHOOSE x \in keys : TRUE IN
         RemoveKeys(DelItem(od, k), size - od[IndexOf(od, k)].size_bytes,
                    keys \ {k})

\* DocumentCache.invalidate_pattern
InvalidatePattern(pattern) ==
    LET keys_to_remove ==
            { cache[i].key : i \in { j \in 1..Len(cache) :
                                FnMatch(cache[j].metadata.source, pattern) } }
        r == RemoveKeys(cache, current_size_bytes, keys_to_remove)
    IN /\ cache' = r.od
       /\ current_size_bytes' = r.size
       /\ lastPut' = LastPutKeep(r.od)
       /\ UNCHANGED <<fs, clock, stats, enable_stats, gpc, gsrc, gres>>
       /\ UNCHANGED <<svcVars, poolVars, loaderVars, workerVars, lazyVars,
                      metaVars, previewVars, lockVars, managerVars>>

\* DocumentCache.invalidate_stale
InvalidateStale ==
    LET keys_to_remove ==
            { cache[i].key : i \in { j \in 1..Len(cache) :
                                IsStale(cache[j], cache[j].metadata.source) } }
        r == RemoveKeys(cache, current_size_bytes, keys_to_remove)
    IN /\ cache' = r.od
       /\ current_size_bytes' = r.size
       /\ lastPut' = LastPutKeep(r.od)
       /\ UNCHANGED <<fs, clock, stats, enable_stats, gpc, gsrc, gres>>
       /\ UNCHANGED <<svcVars, poolVars, loaderVars, workerVars, lazyVars,
                      metaVars, previewVars, lockVars, managerVars>>

\* DocumentCache.clear
Clear ==
    /\ cache' = <<>>
    /\ current_size_bytes' = 0
    /\ lastPut' = [k \in CacheKeys |-> NoneResult]
    /\ UNCHANGED <<fs, clock, stats, enable_stats, gpc, gsrc, gres>>
    /\ UNCHANGED <<svcVars, poolVars, loaderVars, workerVars, lazyVars,
                   metaVars, previewVars, lockVars, managerVars>>

(***************************************************************************)
(* The file system, changed by other programs.                             *)
(***************************************************************************)
\* the puts in force for the keys naming file f end when f is modified
LastPutModified(f) ==
    [k \in CacheKeys |-> IF FileOf(k) = f THEN NoneResult ELSE lastPut[k]]

\* a file is written: its modification time advances
ModifyFile(f) ==
    /\ fs[f].exists
    /\ \E m \in Mtimes :
         /\ m > fs[f].mtime
         /\ fs' = [fs EXCEPT ![f].mtime = m]
    /\ lastPut' = LastPutModified(f)
    /\ UNCHANGED <<clock, cache, current_size_bytes, stats, enable_stats,
                   gpc, gsrc, gres>>
    /\ UNCHANGED <<svcVars, poolVars, loaderVars, workerVars, lazyVars,
                   metaVars, previewVars, lockVars, managerVars>>

\* a file is removed
DeleteFile(f) ==
    /\ fs[f].exists
    /\ fs' = [fs EXCEPT ![f] = [exists |-> FALSE, mtime |-> 0]]
    /\ lastPut' = LastPutModified(f)
    /\ UNCHANGED <<clock, cache, current_size_bytes, stats, enable_stats,
                   gpc, gsrc, gres>>
    /\ UNCHANGED <<svcVars, poolVars, loaderVars, workerVars, lazyVars,
                   metaVars, previewVars, lockVars, managerVars>>

\* a file is created
CreateFile(f) ==
    /\ ~fs[f].exists
    /\ \E m \in Mtimes : fs' = [fs EXCEPT ![f] = [exists |-> TRUE, mtime |-> m]]
    /\ lastPut' = LastPutModified(f)
    /\ UNCHANGED <<clock, cache, current_size_bytes, stats, enable_stats,
                   gpc, gsrc, gres>>
    /\ UNCHANGED <<svcVars, poolVars, loaderVars, workerVars, lazyVars,
                   metaVars, previewVars, lockVars, managerVars>>

(***************************************************************************)
(* DocumentProcessingService: asynchronous loads on a thread pool.         *)
(***************************************************************************)
\* sources handed to load_async
SvcSources == {"a", "u"}

\* operation_id = f"load_{source}_{time.time()}"
OperationId(source, now) == <<source, now>>

\* every operation id the modelled calls can form, and one nobody was given
OperationIds == (SvcSources \X (0..MaxOps)) \cup {<<"", 0>>}

\* no operation
NoOp == [id |-> <<"", 0>>, future |-> 0]

\* the callbacks a caller of load_async may pass: on_error and on_complete,
\* each registered or left None
Callbacks ==
    [on_error : BOOLEAN, on_complete : BOOLEAN, on_progress : BOOLEAN]

\* concurrent.futures.Future as submit returns it, with the position of
\* load_task inside it, the outcome the task reached, the callbacks the
\* caller passed and the calls made to them: error_calls holds the error
\* code of each on_error call, complete_calls the success flag of the
\* result of each on_complete call
Future(id, source, callbacks) ==
    [id |-> id, source |-> source, fstate |-> "pending", tpc |-> "start",
     outcome |-> "", on_error |-> callbacks.on_error,
     on_complete |-> callbacks.on_complete,
     on_progress |-> callbacks.on_progress,
     error_calls |-> <<>>, complete_calls |-> <<>>, progress_calls |-> {}]

\* "if on_error: on_error(error)" in load_task
CallOnError(future, error_code) ==
    IF future.on_error
    THEN [future EXCEPT !.error_calls = Append(@, error_code)]
    ELSE future

\* "if on_complete: on_complete(result)" in load_task
CallOnComplete(future, success) ==
    IF future.on_complete
    THEN [future EXCEPT !.complete_calls = Append(@, success)]
    ELSE future

\* Future.done()
Done(future) == future.fstate \in {"done", "cancelled"}

\* dict item assignment and dict.pop(key, None)
DictSet(d, k, v) == [x \in DOMAIN d \cup {k} |-> IF x = k THEN v ELSE d[x]]
DictPop(d, k) == [x \in DOMAIN d \ {k} |-> d[x]]

\* load_async, first part: build the operation id, submit load_task
LoadAsyncSubmit(source) ==
    /\ mpc = "idle"
    /\ Len(futures) < MaxOps
    /\ \E now \in {svc_time, svc_time + 1}, callbacks \in Callbacks :
         /\ svc_time' = now
         /\ futures' = Append(futures,
                Future(OperationId(source, now), source, callbacks))
         /\ m_op' = [id |-> OperationId(source, now), future |-> Len(futures) + 1]
    /\ mpc' = "register"
    /\ UNCHANGED <<active_loads, active_lock, ca_ids, cancelled_count>>
    /\ UNCHANGED progress_callback
    /\ UNCHANGED <<cacheVars, poolVars, loaderVars, workerVars, lazyVars,
                   metaVars, previewVars, lockVars, managerVars>>

\* load_async, second part: track the operation under the lock, return the id
LoadAsyncRegister ==
    /\ mpc = "register"
    /\ active_lock = ""
    /\ active_loads' = DictSet(active_loads, m_op.id, m_op.future)
    /\ mpc' = "idle"
    /\ m_op' = NoOp
    /\ UNCHANGED <<svc_time, futures, active_lock, ca_ids, cancelled_count>>
    /\ UNCHANGED progress_callback
    /\ UNCHANGED <<cacheVars, poolVars, loaderVars, workerVars, lazyVars,
                   metaVars, previewVars, lockVars, managerVars>>

\* futures whose task a pool thread is running
Running == { f \in 1..Len(futures) : futures[f].fstate = "running" }

\* a pool thread takes the oldest pending work item and runs load_task up to
\* the loader: the registry has no loader for the source, or it has one
\* "if on_progress: loader.set_progress_callback(on_progress)" in load_task,
\* on the loader the registry returns for the source
SetProgressCallback(callbacks, source, on_progress) ==
    IF on_progress # 0
    THEN DictSet(callbacks, source, on_progress)
    ELSE callbacks

\* the callback the loader of the source holds, 0 for None
ProgressCallbackOf(source) ==
    IF source \in DOMAIN progress_callback THEN progress_callback[source]
    ELSE 0

\* load_stream calls the loader's _progress_callback, if it has one, when
\* the interval has passed after a chunk and once more at the end of the
\* stream; called records the load in the calls of the callback's future
ProgressCalls(loads, f, called) ==
    LET holder == ProgressCallbackOf(loads[f].source) IN
    IF called /\ holder # 0
    THEN [loads EXCEPT ![holder].progress_calls = @ \cup {f}]
    ELSE loads

TaskStart(f) ==
    /\ f \in 1..Len(futures)
    /\ futures[f].fstate = "pending"
    /\ \A g \in 1..(f - 1) : futures[g].fstate # "pending"
    /\ Cardinality(Running) < MaxWorkers
    /\ \E loader \in BOOLEAN :
         /\ futures' = [futures EXCEPT ![f] =
                IF loader
                THEN [@ EXCEPT !.fstate = "running", !.tpc = "loading"]
                ELSE CallOnError([@ EXCEPT !.fstate = "running",
                                           !.tpc = "finally",
                                           !.outcome = "NO_LOADER"],
                                 "NO_LOADER")]
         /\ progress_callback' =
              IF loader
              THEN SetProgressCallback(progress_callback, futures[f].source,
                                       IF futures[f].on_progress THEN f ELSE 0)
              ELSE progress_callback
    /\ UNCHANGED <<svc_time, active_loads, active_lock, mpc, m_op, ca_ids,
                   cancelled_count>>
    /\ UNCHANGED <<cacheVars, poolVars, loaderVars, workerVars, lazyVars,
                   metaVars, previewVars, lockVars, managerVars>>

\* load_task: loader.load_complete(source) returns a result, successful or
\* not, or raises; the matching callback is called.  During the load the
\* loader calls the progress callback it holds: at the end of a stream that
\* was read through, and possibly before a failure.
TaskLoad(f) ==
    /\ f \in 1..Len(futures)
    /\ futures[f].tpc = "loading"
    /\ \E outcome \in {"success", "failure", "LOAD_EXCEPTION"},
          called \in BOOLEAN :
         /\ called => ProgressCallbackOf(futures[f].source) # 0
         /\ (outcome = "success" /\ ProgressCallbackOf(futures[f].source) # 0)
            => called
         /\ futures' = [ProgressCalls(futures, f, called) EXCEPT ![f] =
                LET reached == [@ EXCEPT !.tpc = "finally", !.outcome = outcome]
                IN  IF outcome = "LOAD_EXCEPTION"
                    THEN CallOnError(reached, "LOAD_EXCEPTION")
                    ELSE CallOnComplete(reached, outcome = "success")]
    /\ UNCHANGED <<svc_time, active_loads, active_lock, mpc, m_op, ca_ids,
                   cancelled_count>>
    /\ UNCHANGED progress_callback
    /\ UNCHANGED <<cacheVars, poolVars, loaderVars, workerVars, lazyVars,
                   metaVars, previewVars, lockVars, managerVars>>

\* load_task, finally: drop the operation under the lock; the future is done
TaskFinally(f) ==
    /\ f \in 1..Len(futures)
    /\ futures[f].tpc = "finally"
    /\ active_lock = ""
    /\ active_loads' = DictPop(active_loads, futures[f].id)
    /\ futures' = [futures EXCEPT ![f].tpc = "end", ![f].fstate = "done"]
    /\ UNCHANGED <<svc_time, active_lock, mpc, m_op, ca_ids, cancelled_count>>
    /\ UNCHANGED progress_callback
    /\ UNCHANGED <<cacheVars, poolVars, loaderVars, workerVars, lazyVars,
                   metaVars, previewVars, lockVars, managerVars>>

\* cancel_load: the value the call returns once it holds the lock
CancelLoadReturns(operation_id) ==
    /\ operation_id \in DOMAIN active_loads
    /\ ~Done(futures[active_loads[operation_id]])
    /\ futures[active_loads[operation_id]].fstate = "pending"

\* cancel_load, called by a client or from inside cancel_all_loads; it
\* acquires _active_lock, which is not reentrant
CancelLoad(operation_id) ==
    /\ mpc \in {"idle", "cancel_all_call"}
    /\ mpc = "cancel_all_call" => operation_id = m_op.id
    /\ active_lock = ""
    /\ IF CancelLoadReturns(operation_id)
       THEN /\ futures' = [futures EXCEPT
                              ![active_loads[operation_id]].fstate = "cancelled"]
            /\ active_loads' = DictPop(active_loads, operation_id)
       ELSE UNCHANGED <<futures, active_loads>>
    /\ cancelled_count' =
          IF mpc = "cancel_all_call" /\ CancelLoadReturns(operation_id)
          THEN cancelled_count + 1 ELSE cancelled_count
    /\ mpc' = IF mpc = "cancel_all_call" THEN "cancel_all_loop" ELSE "idle"
    /\ m_op' = NoOp
    /\ UNCHANGED <<svc_time, active_lock, ca_ids>>
    /\ UNCHANGED progress_callback
    /\ UNCHANGED <<cacheVars, poolVars, loaderVars, workerVars, lazyVars,
                   metaVars, previewVars, lockVars, managerVars>>

\* cancel_all_loads: take the lock and list the keys
CancelAllLoadsBegin ==
    /\ mpc = "idle"
    /\ active_lock = ""
    /\ active_lock' = "main"
    /\ ca_ids' = DOMAIN active_loads
    /\ cancelled_count' = 0
    /\ mpc' = "cancel_all_loop"
    /\ UNCHANGED <<svc_time, futures, active_loads, m_op>>
    /\ UNCHANGED progress_callback
    /\ UNCHANGED <<cacheVars, poolVars, loaderVars, workerVars, lazyVars,
                   metaVars, previewVars, lockVars, managerVars>>

\* cancel_all_loads: the for loop, still holding the lock; it calls
\* cancel_load for the next id, or leaves the with block when none is left
CancelAllLoadsLoop ==
    /\ mpc = "cancel_all_loop"
    /\ IF ca_ids = {}
       THEN /\ active_lock' = ""
            /\ mpc' = "cancel_all_return"
            /\ UNCHANGED <<m_op, ca_ids>>
       ELSE \E op_id \in ca_ids :
            /\ m_op' = [id |-> op_id, future |-> 0]
            /\ ca_ids' = ca_ids \ {op_id}
            /\ mpc' = "cancel_all_call"
            /\ UNCHANGED active_lock
    /\ UNCHANGED <<svc_time, futures, active_loads, cancelled_count>>
    /\ UNCHANGED progress_callback
    /\ UNCHANGED <<cacheVars, poolVars, loaderVars, workerVars, lazyVars,
                   metaVars, previewVars, lockVars, managerVars>>

\* cancel_all_loads: return cancelled_count
CancelAllLoadsReturn ==
    /\ mpc = "cancel_all_return"
    /\ mpc' = "idle"
    /\ UNCHANGED <<svc_time, futures, active_loads, active_lock, m_op, ca_ids,
                   cancelled_count>>
    /\ UNCHANGED progress_callback
    /\ UNCHANGED <<cacheVars, poolVars, loaderVars, workerVars, lazyVars,
                   metaVars, previewVars, lockVars, managerVars>>

SvcInit ==
    /\ svc_time = 0
    /\ futures = <<>>
    /\ active_loads = [x \in {} |-> 0]
    /\ active_lock = ""
    /\ mpc = "idle"
    /\ m_op = NoOp
    /\ ca_ids = {}
    /\ cancelled_count = 0
    /\ progress_callback = <<>>

SvcNext ==
    \/ \E s \in SvcSources : LoadAsyncSubmit(s)
    \/ LoadAsyncRegister
    \/ \E f \in 1..MaxOps : TaskStart(f)
    \/ \E f \in 1..MaxOps : TaskLoad(f)
    \/ \E f \in 1..MaxOps : TaskFinally(f)
    \/ \E id \in OperationIds : CancelLoad(id)
    \/ CancelAllLoadsBegin
    \/ CancelAllLoadsLoop
    \/ CancelAllLoadsReturn

(***************************************************************************)
(* LoaderWorker and FileLoaderThread: the priority queue, the dispatcher   *)
(* thread (run), the executor's workers and the client thread.             *)
(***************************************************************************)
\* file paths handed to add_file
Paths == {"p", "q"}

\* the order of two paths as Python compares the strings
PathRank(path) == IF path = "p" THEN 1 ELSE 2

\* FileLoaderThread.PRIORITY_HIGH, PRIORITY_NORMAL, PRIORITY_LOW
PRIORITY_HIGH == 1
PRIORITY_NORMAL == 5
PRIORITY_LOW == 10

\* priorities clients pass to add_file
ClientPriorities == {PRIORITY_HIGH, PRIORITY_NORMAL}

\* LoaderWorker.max_retries
MaxRetries == 3

\* the retry cap of FileLoaderThread._handle_failure
MaxRequeues == 3

\* FileLoaderThread.max_workers and batch_size, scaled down
PoolMaxWorkers == 2
BatchSize == 2

\* tuple comparison of two queue items (priority, time.time(), file_path)
ItemBefore(x, y) ==
    \/ x[1] < y[1]
    \/ x[1] = y[1] /\ x[2] < y[2]
    \/ x[1] = y[1] /\ x[2] = y[2] /\ PathRank(x[3]) < PathRank(y[3])

\* a queue that hands the items out in the order they were put
QueuePutFifo(q, item) == Append(q, item)

\* PriorityQueue.put: the queue is kept in the order get hands the items out
QueuePut(q, item) ==
    LET n == Cardinality({ i \in 1..Len(q) : ~ItemBefore(item, q[i]) })
    IN SubSeq(q, 1, n) \o <<item>> \o SubSeq(q, n + 1, Len(q))

\* LoaderWorker.__init__, and the state of the future worker.load runs in
LoaderWorker(file_path) ==
    [file_path |-> file_path, cancelled |-> FALSE, fstate |-> "created",
     attempt |-> 0, sleeps |-> <<>>, result |-> ""]

\* a worker whose future was collected and which nothing refers to any more
Collected(file_path) ==
    [file_path |-> file_path, cancelled |-> FALSE, fstate |-> "collected",
     attempt |-> 0, sleeps |-> <<>>, result |-> ""]

\* the worker as the pool sees it: when load has returned its locals are gone
Returned(worker) ==
    IF worker.fstate = "done"
    THEN [worker EXCEPT !.attempt = 0, !.sleeps = <<>>]
    ELSE worker

\* what one call of _load_file does: it returns the content, or one of its
\* steps raises: the existence test, the is_file test, or the loader call
\* with the metadata extraction
LoadOutcomes ==
    { <<"return", "">>,
      <<"exists", "FileNotFoundError">>, <<"exists", "PermissionError">>,
      <<"is_file", "ValueError">>,
      <<"loader", "FileNotFoundError">>, <<"loader", "PermissionError">>,
      <<"loader", "OSError">> }

\* the exception _load_file lets out: whatever the loader call raises is
\* caught and raised again as a plain Exception("Loader failed: ...")
RaisedBy(step, error) == IF step = "loader" THEN "Exception" ELSE error

\* a backoff that does not grow
BackoffDelayFixed(attempt) == 1

\* the backoff before the next attempt, in units of backoff_base
BackoffDelay(attempt) == 2 ^ attempt

\* LoaderWorker.load, one pass of the for loop of a worker that is not
\* cancelled, with what _load_file does in it: return on success, break on
\* FileNotFoundError and PermissionError, else sleep and go on unless this
\* was the last attempt
LoadPass(worker, step, error) ==
    CASE step = "return" ->
           [worker EXCEPT !.attempt = @ + 1, !.fstate = "done", !.result = "ok"]
      [] RaisedBy(step, error) = "FileNotFoundError" ->
           [worker EXCEPT !.attempt = @ + 1, !.fstate = "done",
                          !.result = "File not found"]
      [] RaisedBy(step, error) = "PermissionError" ->
           [worker EXCEPT !.attempt = @ + 1, !.fstate = "done",
                          !.result = "Permission denied"]
      [] OTHER ->
           IF worker.attempt < MaxRetries - 1
           THEN [worker EXCEPT !.attempt = @ + 1,
                               !.sleeps = Append(@, BackoffDelay(worker.attempt))]
           ELSE [worker EXCEPT !.attempt = @ + 1, !.fstate = "done",
                               !.result = "Load error"]

\* the values time.time() can have when add_file reads it: the time of the
\* last put or a later one.  Timestamps are only compared between items that
\* are in the queue together, so they are counted from the put that found
\* the queue empty.
Now == IF queue = <<>> THEN {0} ELSE {ptime, ptime + 1}

\* add_file: the queue and the task counter after the call, and the time the
\* call read if it read it
AddFileCall(file_path, priority, now) ==
    IF file_path \in DOMAIN active_workers
    THEN [queue |-> queue, total_tasks |-> total_tasks, ptime |-> ptime]
    ELSE [queue |-> QueuePut(queue, <<priority, now, file_path>>),
          total_tasks |-> total_tasks + 1, ptime |-> now]

\* number of add_file calls clients made that reached the queue
Admitted == admitted["p"] + admitted["q"]

\* a client's add_file(file_path, priority)
AddFile(file_path, priority) ==
    /\ upc = "idle"
    /\ Admitted < MaxAdds
    /\ \E now \in Now :
         LET r == AddFileCall(file_path, priority, now) IN
         /\ ptime' = r.ptime
         /\ queue' = r.queue
         /\ total_tasks' = r.total_tasks
         /\ admitted' = IF file_path \in DOMAIN active_workers THEN admitted
                        ELSE [admitted EXCEPT ![file_path] = @ + 1]
    /\ UNCHANGED <<active_workers, workers, stop_event, executor,
                   completed_tasks, retry_counts, dpc, batch, futs, upc,
                   signals, file_loaded, file_failed>>
    /\ UNCHANGED <<cacheVars, svcVars, loaderVars, workerVars, lazyVars,
                   metaVars, previewVars, lockVars, managerVars>>

\* cancel_all, first part: set the stop flag
CancelAll ==
    /\ upc = "idle"
    /\ stop_event' = TRUE
    /\ upc' = "cancel_workers"
    /\ UNCHANGED <<queue, active_workers, workers, executor, total_tasks,
                   completed_tasks, retry_counts, dpc, batch, futs, signals,
                   file_loaded, file_failed, admitted, ptime>>
    /\ UNCHANGED <<cacheVars, svcVars, loaderVars, workerVars, lazyVars,
                   metaVars, previewVars, lockVars, managerVars>>

\* cancel_all, second part: cancel every active worker under _workers_lock
CancelAllWorkers ==
    /\ upc = "cancel_workers"
    /\ workers' = [w \in 1..Len(workers) |->
                     IF \E path \in DOMAIN active_workers : active_workers[path] = w
                     THEN [workers[w] EXCEPT !.cancelled = TRUE]
                     ELSE workers[w]]
    /\ upc' = "clear_queue"
    /\ UNCHANGED <<queue, active_workers, stop_event, executor, total_tasks,
                   completed_tasks, retry_counts, dpc, batch, futs, signals,
                   file_loaded, file_failed, admitted, ptime>>
    /\ UNCHANGED <<cacheVars, svcVars, loaderVars, workerVars, lazyVars,
                   metaVars, previewVars, lockVars, managerVars>>

\* cancel_all, last part: empty the queue under _queue_lock
CancelAllClear ==
    /\ upc = "clear_queue"
    /\ queue' = <<>>
    /\ upc' = "idle"
    /\ UNCHANGED <<active_workers, workers, stop_event, executor, total_tasks,
                   completed_tasks, retry_counts, dpc, batch, futs, signals,
                   file_loaded, file_failed, admitted, ptime>>
    /\ UNCHANGED <<cacheVars, svcVars, loaderVars, workerVars, lazyVars,
                   metaVars, previewVars, lockVars, managerVars>>

\* workers whose load the executor is running
PoolRunning == { w \in 1..Len(workers) : workers[w].fstate = "running" }

\* an executor thread takes the oldest submitted work item
WorkerStart(w) ==
    /\ w \in 1..Len(workers)
    /\ workers[w].fstate = "pending"
    /\ \A v \in 1..(w - 1) : workers[v].fstate # "pending"
    /\ Cardinality(PoolRunning) < PoolMaxWorkers
    /\ workers' = [workers EXCEPT ![w].fstate = "running"]
    /\ UNCHANGED <<queue, active_workers, stop_event, executor, total_tasks,
                   completed_tasks, retry_counts, dpc, batch, futs, upc,
                   signals, file_loaded, file_failed, admitted, ptime>>
    /\ UNCHANGED <<cacheVars, svcVars, loaderVars, workerVars, lazyVars,
                   metaVars, previewVars, lockVars, managerVars>>

\* LoaderWorker.load, one pass of the for loop: return when cancelled, else
\* try _load_file; the loop ends on success, on a missing or unreadable
\* file, and after max_retries attempts
WorkerAttempt(w) ==
    /\ w \in 1..Len(workers)
    /\ workers[w].fstate = "running"
    /\ IF workers[w].cancelled
       THEN workers' = [workers EXCEPT ![w].fstate = "done",
                                       ![w].result = "Load cancelled"]
       ELSE \E outcome \in LoadOutcomes :
              workers' = [workers EXCEPT ![w] =
                              Returned(LoadPass(@, outcome[1], outcome[2]))]
    /\ UNCHANGED <<queue, active_workers, stop_event, executor, total_tasks,
                   completed_tasks, retry_counts, dpc, batch, futs, upc,
                   signals, file_loaded, file_failed, admitted, ptime>>
    /\ UNCHANGED <<cacheVars, svcVars, loaderVars, workerVars, lazyVars,
                   metaVars, previewVars, lockVars, managerVars>>

\* run, up to the loop: emit load_started, create the executor
RunBegin ==
    /\ dpc = "not_started"
    /\ signals' = [signals EXCEPT !.load_started = @ + 1]
    /\ executor' = "ThreadPoolExecutor"
    /\ dpc' = "loop"
    /\ UNCHANGED <<queue, active_workers, workers, stop_event, total_tasks,
                   completed_tasks, retry_counts, batch, futs, upc,
                   file_loaded, file_failed, admitted, ptime>>
    /\ UNCHANGED <<cacheVars, svcVars, loaderVars, workerVars, lazyVars,
                   metaVars, previewVars, lockVars, managerVars>>

\* the while loop as it would be if it ran only while the queue has items
LoopContinuesIgnoringStop == queue # <<>>

\* run: the condition of the while loop
LoopContinues == ~stop_event \/ queue # <<>>

\* min(batch_size, qsize)
BatchLen == IF Len(queue) < BatchSize THEN Len(queue) ELSE BatchSize

\* run: test the loop condition; inside the loop _process_batch takes a
\* batch off the queue and returns at once when the batch is empty
RunLoop ==
    /\ dpc = "loop"
    /\ IF LoopContinues
       THEN /\ batch' = SubSeq(queue, 1, BatchLen)
            /\ queue' = SubSeq(queue, BatchLen + 1, Len(queue))
            /\ dpc' = IF BatchLen = 0 THEN "loop" ELSE "submit"
       ELSE /\ dpc' = "shutdown"
            /\ UNCHANGED <<queue, batch>>
    /\ UNCHANGED <<active_workers, workers, stop_event, executor, total_tasks,
                   completed_tasks, retry_counts, futs, upc, signals,
                   file_loaded, file_failed, admitted, ptime>>
    /\ UNCHANGED <<cacheVars, svcVars, loaderVars, workerVars, lazyVars,
                   metaVars, previewVars, lockVars, managerVars>>

\* _process_batch, submit loop: leave the loop when the batch is used up or
\* the stop flag is set, else create the worker of the next item
SubmitNext ==
    /\ dpc = "submit"
    /\ IF batch = <<>> \/ stop_event
       THEN /\ batch' = <<>>
            /\ dpc' = "results"
            /\ UNCHANGED workers
       ELSE /\ workers' = Append(workers, LoaderWorker(Head(batch)[3]))
            /\ dpc' = "register"
            /\ UNCHANGED batch
    /\ UNCHANGED <<queue, active_workers, stop_event, executor, total_tasks,
                   completed_tasks, retry_counts, futs, upc, signals,
                   file_loaded, file_failed, admitted, ptime>>
    /\ UNCHANGED <<cacheVars, svcVars, loaderVars, workerVars, lazyVars,
                   metaVars, previewVars, lockVars, managerVars>>

\* _process_batch, submit loop: register the worker under _workers_lock and
\* submit its load to the executor
SubmitRegister ==
    /\ dpc = "register"
    /\ active_workers' = DictSet(active_workers, Head(batch)[3], Len(workers))
    /\ workers' = [workers EXCEPT ![Len(workers)].fstate = "pending"]
    /\ futs' = futs \cup {Len(workers)}
    /\ batch' = Tail(batch)
    /\ dpc' = "submit"
    /\ UNCHANGED <<queue, stop_event, executor, total_tasks, completed_tasks,
                   retry_counts, upc, signals, file_loaded, file_failed,
                   admitted, ptime>>
    /\ UNCHANGED <<cacheVars, svcVars, loaderVars, workerVars, lazyVars,
                   metaVars, previewVars, lockVars, managerVars>>

\* _handle_failure: requeue the file with low priority while its retry count
\* is below the cap, else emit file_failed and forget the count
HandleFailure(file_path, now) ==
    IF retry_counts[file_path] < MaxRequeues
    THEN LET r == AddFileCall(file_path, PRIORITY_LOW, now) IN
         /\ retry_counts' = [retry_counts EXCEPT ![file_path] = @ + 1]
         /\ queue' = r.queue
         /\ total_tasks' = r.total_tasks
         /\ ptime' = r.ptime
         /\ UNCHANGED file_failed
    ELSE /\ file_failed' = [file_failed EXCEPT ![file_path] = @ + 1]
         /\ retry_counts' = [retry_counts EXCEPT ![file_path] = 0]
         /\ UNCHANGED <<queue, total_tasks, ptime>>

\* a results loop that goes on to the outcome whatever the stop flag says
StopSeenNever == FALSE

\* _process_batch, loop over as_completed(futures): the test of the stop flag
\* made for each finished future before its outcome is read
StopSeen == stop_event

\* _process_batch, loop over as_completed(futures): return when no future is
\* left; else wait for a finished one, break when the stop flag is set, emit
\* file_loaded or handle the failure, and finally drop the worker from
\* _active_workers and count the task as completed
ResultsNext ==
    /\ dpc = "results"
    /\ IF futs = {}
       THEN /\ dpc' = "loop"
            /\ UNCHANGED <<queue, active_workers, workers, total_tasks,
                           completed_tasks, retry_counts, futs, file_loaded,
                           file_failed, ptime>>
       ELSE \E w \in futs :
            /\ workers[w].fstate = "done"
            /\ IF StopSeen
               THEN /\ futs' = {}
                    /\ dpc' = "loop"
                    /\ UNCHANGED <<queue, active_workers, workers, total_tasks,
                                   completed_tasks, retry_counts, file_loaded,
                                   file_failed, ptime>>
               ELSE LET path == workers[w].file_path IN
                    /\ IF workers[w].result = "ok"
                       THEN /\ file_loaded' = [file_loaded EXCEPT ![path] = @ + 1]
                            /\ UNCHANGED <<queue, total_tasks, retry_counts,
                                           file_failed, ptime>>
                       ELSE \E now \in Now :
                            /\ HandleFailure(path, now)
                            /\ UNCHANGED file_loaded
                    /\ active_workers' = DictPop(active_workers, path)
                    /\ completed_tasks' = completed_tasks + 1
                    /\ workers' = [workers EXCEPT ![w] = Collected(path)]
                    /\ futs' = futs \ {w}
                    /\ UNCHANGED dpc
    /\ UNCHANGED <<stop_event, executor, batch, upc, signals, admitted>>
    /\ UNCHANGED <<cacheVars, svcVars, loaderVars, workerVars, lazyVars,
                   metaVars, previewVars, lockVars, managerVars>>

\* run, finally: _shutdown_executor waits for the submitted loads, drops the
\* executor, and load_finished is emitted
RunShutdown ==
    /\ dpc = "shutdown"
    /\ \A w \in 1..Len(workers) : workers[w].fstate \notin {"pending", "running"}
    /\ executor' = "None"
    /\ signals' = [signals EXCEPT !.load_finished = @ + 1]
    /\ dpc' = "finished"
    /\ UNCHANGED <<queue, active_workers, workers, stop_event, total_tasks,
                   completed_tasks, retry_counts, batch, futs, upc,
                   file_loaded, file_failed, admitted, ptime>>
    /\ UNCHANGED <<cacheVars, svcVars, loaderVars, workerVars, lazyVars,
                   metaVars, previewVars, lockVars, managerVars>>

PoolInit ==
    /\ queue = <<>>
    /\ active_workers = [x \in {} |-> 0]
    /\ workers = <<>>
    /\ stop_event = FALSE
    /\ executor = "None"
    /\ total_tasks = 0
    /\ completed_tasks = 0
    /\ retry_counts = [path \in Paths |-> 0]
    /\ dpc = "not_started"
    /\ batch = <<>>
    /\ futs = {}
    /\ upc = "idle"
    /\ signals = [load_started |-> 0, load_finished |-> 0]
    /\ file_loaded = [path \in Paths |-> 0]
    /\ file_failed = [path \in Paths |-> 0]
    /\ admitted = [path \in Paths |-> 0]
    /\ ptime = 0

\* the most workers the admitted files can lead to: a failed file is queued
\* again only when another item of its batch had the same path
MaxPoolTasks == (MaxAdds * (MaxAdds + 1)) \div 2

\* the steps of the client thread
ClientNext ==
    \/ \E path \in Paths, priority \in ClientPriorities : AddFile(path, priority)
    \/ CancelAll
    \/ CancelAllWorkers
    \/ CancelAllClear

\* the steps of the dispatcher thread and of the executor's threads
DispatchNext ==
    \/ RunBegin
    \/ RunLoop
    \/ SubmitNext
    \/ SubmitRegister
    \/ ResultsNext
    \/ RunShutdown
    \/ \E w \in 1..MaxPoolTasks : WorkerStart(w)
    \/ \E w \in 1..MaxPoolTasks : WorkerAttempt(w)

PoolNext == ClientNext \/ DispatchNext

\* a client's reset_progress: the task counters are set to zero under
\* _batch_lock and the retry counts are cleared
ResetProgress ==
    /\ upc = "idle"
    /\ total_tasks' = 0
    /\ completed_tasks' = 0
    /\ retry_counts' = [path \in Paths |-> 0]
    /\ UNCHANGED <<queue, active_workers, workers, stop_event, executor, dpc,
                   batch, futs, upc, signals, file_loaded, file_failed,
                   admitted, ptime>>
    /\ UNCHANGED <<cacheVars, svcVars, loaderVars, workerVars, lazyVars,
                   metaVars, previewVars, lockVars, managerVars>>

\* the pool with clients that also reset the progress
PoolResetNext == PoolNext \/ ResetProgress

(***************************************************************************)
(* The locks of FileLoaderThread: _queue_lock, _workers_lock, _batch_lock, *)
(* each a threading.Lock, and the order in which the methods take them.    *)
(***************************************************************************)
\* the threads that call into the pool: two clients and the thread of run
LockThreads == {"client1", "client2", "run"}

Locks == {"_queue_lock", "_workers_lock", "_batch_lock"}

\* entering and leaving the with block of a lock
Enter(lock) == <<"acquire", lock>>
Leave(lock) == <<"release", lock>>

\* add_file taking _batch_lock first and _queue_lock inside it
AddFileLocksBatchFirst(active) ==
    IF active
    THEN <<Enter("_queue_lock"), Leave("_queue_lock")>>
    ELSE <<Enter("_batch_lock"), Enter("_queue_lock"),
           Leave("_queue_lock"), Leave("_batch_lock")>>

\* add_file: _queue_lock, and inside it, unless the path is active and the
\* call returns, _batch_lock around the count of the task
AddFileLocks(active) ==
    IF active
    THEN <<Enter("_queue_lock"), Leave("_queue_lock")>>
    ELSE <<Enter("_queue_lock"), Enter("_batch_lock"),
           Leave("_batch_lock"), Leave("_queue_lock")>>

\* cancel_all: _workers_lock around the cancellations, then _queue_lock
\* around the emptying of the queue
CancelAllLocks ==
    <<Enter("_workers_lock"), Leave("_workers_lock"),
      Enter("_queue_lock"), Leave("_queue_lock")>>

\* reset_progress: _batch_lock around the reset of the counters
ResetProgressLocks == <<Enter("_batch_lock"), Leave("_batch_lock")>>

\* _process_batch for a batch of one item: _queue_lock around the taking of
\* the batch, _workers_lock around the registration of the worker, then for
\* the finished future _handle_failure, which may call add_file, and in the
\* finally clause _workers_lock and after it _batch_lock
ProcessBatchLocks(outcome) ==
    CASE outcome = "empty" -> <<Enter("_queue_lock"), Leave("_queue_lock")>>
      [] OTHER ->
           <<Enter("_queue_lock"), Leave("_queue_lock"),
             Enter("_workers_lock"), Leave("_workers_lock")>>
           \o (IF outcome = "requeued" THEN AddFileLocks(FALSE) ELSE <<>>)
           \o <<Enter("_workers_lock"), Leave("_workers_lock"),
                Enter("_batch_lock"), Leave("_batch_lock")>>

\* what the calls of a thread can be: the thread of run processes batches,
\* the clients call add_file, cancel_all and reset_progress
Calls(t) ==
    IF t = "run"
    THEN { ProcessBatchLocks(o) : o \in {"empty", "loaded", "requeued"} }
    ELSE { AddFileLocks(a) : a \in BOOLEAN }
         \cup {CancelAllLocks, ResetProgressLocks}

\* the thread that holds the lock, if one does
Holders(lock) ==
    { t \in DOMAIN lock_threads :
        \E i \in 1..Len(lock_threads[t].held) : lock_threads[t].held[i] = lock }

\* a thread that is in no call starts one
LockCall(t, steps) ==
    /\ t \notin DOMAIN lock_threads
    /\ steps \in Calls(t)
    /\ lock_threads' =
         DictSet(lock_threads, t, [steps |-> steps, held |-> <<>>])
    /\ UNCHANGED <<cacheVars, svcVars, poolVars, loaderVars, workerVars,
                   lazyVars, metaVars, previewVars, managerVars>>

\* Lock.acquire: the thread gets the lock when no thread holds it
LockAcquire(t) ==
    /\ t \in DOMAIN lock_threads
    /\ Head(lock_threads[t].steps)[1] = "acquire"
    /\ Holders(Head(lock_threads[t].steps)[2]) = {}
    /\ lock_threads' =
         [lock_threads EXCEPT
            ![t] = [steps |-> Tail(lock_threads[t].steps),
                    held |-> Append(lock_threads[t].held,
                                    Head(lock_threads[t].steps)[2])]]
    /\ UNCHANGED <<cacheVars, svcVars, poolVars, loaderVars, workerVars,
                   lazyVars, metaVars, previewVars, managerVars>>

\* the locks held without the one released
Released(held, lock) ==
    LET Kept(l) == l # lock IN SelectSeq(held, Kept)

\* Lock.release, at the end of the with block; after its last step the
\* call returns
LockRelease(t) ==
    /\ t \in DOMAIN lock_threads
    /\ Head(lock_threads[t].steps)[1] = "release"
    /\ lock_threads' =
         IF Tail(lock_threads[t].steps) = <<>>
         THEN DictPop(lock_threads, t)
         ELSE [lock_threads EXCEPT
                 ![t] = [steps |-> Tail(lock_threads[t].steps),
                         held |-> Released(lock_threads[t].held,
                                           Head(lock_threads[t].steps)[2])]]
    /\ UNCHANGED <<cacheVars, svcVars, poolVars, loaderVars, workerVars,
                   lazyVars, metaVars, previewVars, managerVars>>

LockInit == lock_threads = <<>>

\* every call the threads can start
AllCalls == UNION { Calls(t) : t \in LockThreads }

LockNext ==
    \/ \E t \in LockThreads, steps \in AllCalls : LockCall(t, steps)
    \/ \E t \in LockThreads : LockAcquire(t)
    \/ \E t \in LockThreads : LockRelease(t)

(***************************************************************************)
(* FileLoaderManager: the operations it tracks, and the signals of its     *)
(* thread that it handles.  Of the thread the manager sees the files it    *)
(* gave to add_file and the signals; a file given to the thread is         *)
(* reported loaded or failed, and batch_progress follows each report.      *)
(***************************************************************************)
\* load_file: the operation as registered
Operation(file_path, priority) ==
    [path |-> file_path, status |-> "pending", priority |-> priority,
     progress |-> 0]

\* the for loop with its break: of the operations that pass the test, the
\* first in the order of the dict, or 0 when there is none
FirstOperation(matching) ==
    IF matching = {} THEN 0
    ELSE CHOOSE i \in matching : \A j \in matching : i <= j

\* _on_file_loaded: the first operation of the file with status "loading"
\* becomes completed with progress 100
OnFileLoadedDoes(ops, file_path) ==
    LET i == FirstOperation({ j \in 1..Len(ops) :
                                 /\ ops[j].path = file_path
                                 /\ ops[j].status = "loading" })
    IN IF i = 0 THEN ops
       ELSE [ops EXCEPT ![i].status = "completed", ![i].progress = 100]

\* _on_file_failed: the first operation of the file becomes failed
OnFileFailedDoes(ops, file_path) ==
    LET i == FirstOperation({ j \in 1..Len(ops) : ops[j].path = file_path })
    IN IF i = 0 THEN ops ELSE [ops EXCEPT ![i].status = "failed"]

\* _on_batch_progress: the operations with status "loading" get the progress
OnBatchProgressDoes(ops, current, total) ==
    LET progress == IF total > 0 THEN (current * 100) \div total ELSE 0
    IN [i \in 1..Len(ops) |->
          IF ops[i].status = "loading"
          THEN [ops[i] EXCEPT !.progress = progress]
          ELSE ops[i]]

\* get_instance, initialize and start: the manager is created, and its
\* thread is created, connected and started
ManagerStart ==
    /\ DOMAIN manager = {}
    /\ manager' = [is_started |-> TRUE,
                   active_operations |-> <<>>,
                   thread_files |-> [path \in Paths |-> 0],
                   total_tasks |-> 0,
                   completed_tasks |-> 0,
                   emitted |-> 0]
    /\ UNCHANGED <<cacheVars, svcVars, poolVars, loaderVars, workerVars,
                   lazyVars, metaVars, previewVars, lockVars>>

\* load_file: register the operation and give the file to the thread
LoadFile(file_path, priority) ==
    /\ DOMAIN manager # {}
    /\ manager.is_started
    /\ Len(manager.active_operations) < MaxOperations
    /\ manager' =
         [manager EXCEPT
            !.active_operations = Append(@, Operation(file_path, priority)),
            !.thread_files = [@ EXCEPT ![file_path] = @ + 1],
            !.total_tasks = @ + 1]
    /\ UNCHANGED <<cacheVars, svcVars, poolVars, loaderVars, workerVars,
                   lazyVars, metaVars, previewVars, lockVars>>

\* the thread emits file_loaded for a file it was given: _on_file_loaded
OnFileLoaded(file_path) ==
    /\ DOMAIN manager # {}
    /\ manager.thread_files[file_path] > 0
    /\ manager.emitted = manager.completed_tasks
    /\ manager' =
         [manager EXCEPT
            !.active_operations = OnFileLoadedDoes(@, file_path),
            !.thread_files = [@ EXCEPT ![file_path] = @ - 1],
            !.completed_tasks = @ + 1]
    /\ UNCHANGED <<cacheVars, svcVars, poolVars, loaderVars, workerVars,
                   lazyVars, metaVars, previewVars, lockVars>>

\* the thread emits file_failed for a file it was given: _on_file_failed
OnFileFailed(file_path) ==
    /\ DOMAIN manager # {}
    /\ manager.thread_files[file_path] > 0
    /\ manager.emitted = manager.completed_tasks
    /\ manager' =
         [manager EXCEPT
            !.active_operations = OnFileFailedDoes(@, file_path),
            !.thread_files = [@ EXCEPT ![file_path] = @ - 1],
            !.completed_tasks = @ + 1]
    /\ UNCHANGED <<cacheVars, svcVars, poolVars, loaderVars, workerVars,
                   lazyVars, metaVars, previewVars, lockVars>>

\* the thread emits batch_progress after a report: _on_batch_progress
OnBatchProgress ==
    /\ DOMAIN manager # {}
    /\ manager.emitted < manager.completed_tasks
    /\ manager' =
         [manager EXCEPT
            !.active_operations =
                OnBatchProgressDoes(@, manager.completed_tasks,
                                    manager.total_tasks),
            !.emitted = manager.completed_tasks]
    /\ UNCHANGED <<cacheVars, svcVars, poolVars, loaderVars, workerVars,
                   lazyVars, metaVars, previewVars, lockVars>>

\* cancel_operation(op_id) of a tracked operation
CancelOperation(op) ==
    /\ DOMAIN manager # {}
    /\ op \in 1..Len(manager.active_operations)
    /\ manager.active_operations[op].status # "cancelled"
    /\ manager' = [manager EXCEPT !.active_operations[op].status = "cancelled"]
    /\ UNCHANGED <<cacheVars, svcVars, poolVars, loaderVars, workerVars,
                   lazyVars, metaVars, previewVars, lockVars>>

\* FileLoaderManager._instance is None
ManagerInit == manager = <<>>

ManagerNext ==
    \/ ManagerStart
    \/ \E path \in Paths, priority \in ClientPriorities : LoadFile(path, priority)
    \/ \E path \in Paths : OnFileLoaded(path)
    \/ \E path \in Paths : OnFileFailed(path)
    \/ OnBatchProgress
    \/ \E op \in 1..MaxOperations : CancelOperation(op)

(***************************************************************************)
(* LoaderWorker.load called on its own, with the history of its attempts.  *)
(***************************************************************************)
\* worker.cancel() from another thread
LoadCancel ==
    /\ lw.fstate = "running"
    /\ ~lw.cancelled
    /\ lw' = [lw EXCEPT !.cancelled = TRUE]
    /\ UNCHANGED lw_tried
    /\ UNCHANGED <<cacheVars, svcVars, poolVars, loaderVars, lazyVars,
                   metaVars, previewVars, lockVars, managerVars>>

\* load, a pass of the for loop that finds the worker cancelled
LoadCancelled ==
    /\ lw.fstate = "running"
    /\ lw.cancelled
    /\ lw' = [lw EXCEPT !.fstate = "done", !.result = "Load cancelled"]
    /\ UNCHANGED lw_tried
    /\ UNCHANGED <<cacheVars, svcVars, poolVars, loaderVars, lazyVars,
                   metaVars, previewVars, lockVars, managerVars>>

\* load, a pass of the for loop that calls _load_file
LoadAttempt(step, error) ==
    /\ lw.fstate = "running"
    /\ ~lw.cancelled
    /\ lw' = LoadPass(lw, step, error)
    /\ lw_tried' = Append(lw_tried, <<step, error>>)
    /\ UNCHANGED <<cacheVars, svcVars, poolVars, loaderVars, lazyVars,
                   metaVars, previewVars, lockVars, managerVars>>

WorkerInit ==
    /\ lw = [LoaderWorker("p") EXCEPT !.fstate = "running"]
    /\ lw_tried = <<>>

WorkerNext ==
    \/ LoadCancel
    \/ LoadCancelled
    \/ \E outcome \in LoadOutcomes : LoadAttempt(outcome[1], outcome[2])

(***************************************************************************)
(* UnifiedDocumentLoader: load_stream on one loader instance.  The         *)
(* registry hands the same instance to every caller, so the streams of     *)
(* several loads share its fields, and the loads of the service run on     *)
(* threads of its pool.  A step of a stream runs up to its next yield, its *)
(* return or its raise, or up to the call of the progress callback, which  *)
(* is code of the caller and takes its time.  The loader has progress      *)
(* enabled and a progress callback set, as the loads of the service with   *)
(* on_progress have.                                                       *)
(***************************************************************************)
\* the loads made on the loader instance
Loads == 1..MaxLoads

\* UnifiedDocumentLoader.PROGRESS_CALLBACK_INTERVAL, in ticks
PROGRESS_CALLBACK_INTERVAL == 2

\* a generator load_stream returned, when it is advanced first; started,
\* calls and final record when its body began, when it called the progress
\* callback at a chunk boundary and whether it made the final call.  The
\* streams hold the generators that have been advanced; handle is the state
\* of the file the loader opened for the stream
NewStream ==
    [pc |-> "created", yielded |-> 0,
     checksum |-> [set |-> FALSE, digest |-> <<>>],
     started |-> 0, current_time |-> 0, calls |-> <<>>, final |-> FALSE,
     handle |-> "none"]

\* hashlib update: the hasher has consumed a raw chunk of load l
HasherUpdate(h, l) == IF enable_checksum THEN Append(h, l) ELSE h

\* load_stream after the loop: finalize the checksum on self._metadata
Finalize(st, meta, h) ==
    IF enable_checksum /\ meta # 0
    THEN [st EXCEPT ![meta].checksum = [set |-> TRUE, digest |-> h]]
    ELSE st

\* _maybe_trigger_callback: the interval has elapsed since the last call
CallbackDue ==
    ld_time - ld_last_callback_time >= PROGRESS_CALLBACK_INTERVAL

\* how one pass of the while loop of load_stream can go
ReadOutcomes == {"chunk", "eof", "read_fails", "process_fails"}

\* load_stream, one pass of the while loop for load l, given the streams,
\* self._metadata, the hasher and self._errors as they are when it starts:
\* a chunk is hashed and processed, and it is yielded or, if a callback is
\* due, the callback is called first; or the read finds the end, the
\* checksum is finalized and the final callback is made; or the read or the
\* processing raises
ReadChunk(l, r, st, meta, h, errs) ==
    CASE r = "chunk" ->
           [streams |-> IF CallbackDue
                        THEN [st EXCEPT ![l].pc = "callback",
                                        ![l].current_time = ld_time,
                                        ![l].calls = Append(@, ld_time)]
                        ELSE [st EXCEPT ![l].pc = "yielded",
                                        ![l].yielded = @ + 1],
            hasher |-> HasherUpdate(h, l), errors |-> errs]
      [] r = "eof" ->
           [streams |-> [Finalize(st, meta, h) EXCEPT ![l].pc = "exhausted",
                                                      ![l].final = TRUE,
                                                      ![l].handle = "closed"],
            hasher |-> h, errors |-> errs]
      [] r = "read_fails" ->
           [streams |-> [st EXCEPT ![l].pc = "raised", ![l].handle = "closed"],
            hasher |-> h, errors |-> Append(errs, "LOAD_FAILED")]
      [] OTHER ->
           [streams |-> [st EXCEPT ![l].pc = "raised", ![l].handle = "closed"],
            hasher |-> HasherUpdate(h, l), errors |-> Append(errs, "LOAD_FAILED")]

\* the outcomes a source of at most MaxChunks chunks allows after k chunks
ReadOutcomesAfter(k) ==
    IF k < MaxChunks THEN ReadOutcomes ELSE ReadOutcomes \ {"chunk"}

\* load_stream, first resumption, for a source the loader cannot handle
StreamUnsupported(l) ==
    /\ l \notin DOMAIN streams
    /\ ld_errors' = Append(ld_errors, "UNSUPPORTED_SOURCE")
    /\ streams' = DictSet(streams, l, [NewStream EXCEPT !.pc = "returned"])
    /\ UNCHANGED <<ld_metadata, ld_hasher, enable_checksum, ld_results,
                   ld_time, ld_last_callback_time>>
    /\ UNCHANGED <<cacheVars, svcVars, poolVars, workerVars, lazyVars,
                   metaVars, previewVars, lockVars, managerVars>>

\* the steps of load_stream before its loop that can raise: the extraction
\* of the metadata, _open_source in its open call, and _open_source after
\* its open call, as CsvLoader's does when it reads the header row
BeginSteps == {"_extract_metadata", "_open_source", "fieldnames"}

\* load_stream, first resumption, for a source the loader can handle: reset
\* progress, errors and hasher, then _extract_metadata or _open_source
\* raises; file_obj is not assigned, so the finally clause closes nothing
StreamBeginFails(l, step) ==
    /\ l \notin DOMAIN streams
    /\ ld_last_callback_time' = ld_time
    /\ ld_errors' = <<"LOAD_FAILED">>
    /\ ld_hasher' = <<>>
    /\ ld_metadata' = IF step = "_extract_metadata" THEN ld_metadata ELSE l
    /\ streams' = DictSet(streams, l,
          [NewStream EXCEPT !.pc = "raised", !.started = ld_time,
                            !.handle = IF step = "fieldnames" THEN "open"
                                       ELSE "none"])
    /\ UNCHANGED <<enable_checksum, ld_results, ld_time>>
    /\ UNCHANGED <<cacheVars, svcVars, poolVars, workerVars, lazyVars,
                   metaVars, previewVars, lockVars, managerVars>>

\* load_stream, first resumption, for a source the loader can handle: reset
\* progress, errors and hasher, extract the metadata, open the source
StreamBegin(l) ==
    /\ l \notin DOMAIN streams
    /\ ld_last_callback_time' = ld_time
    /\ ld_errors' = <<>>
    /\ ld_hasher' = <<>>
    /\ ld_metadata' = l
    /\ streams' = DictSet(streams, l, [NewStream EXCEPT !.pc = "opened",
                                                       !.started = ld_time,
                                                       !.handle = "open"])
    /\ UNCHANGED <<enable_checksum, ld_results, ld_time>>
    /\ UNCHANGED <<cacheVars, svcVars, poolVars, workerVars, lazyVars,
                   metaVars, previewVars, lockVars, managerVars>>

\* load_stream, the next pass of its loop: the first one after the source
\* was opened, the others when the stream is resumed after a yield
StreamNext(l) ==
    /\ l \in DOMAIN streams
    /\ streams[l].pc \in {"opened", "yielded"}
    /\ \E r \in ReadOutcomesAfter(streams[l].yielded) :
         LET n == ReadChunk(l, r, streams, ld_metadata, ld_hasher, ld_errors) IN
         /\ streams' = n.streams
         /\ ld_hasher' = n.hasher
         /\ ld_errors' = n.errors
    /\ UNCHANGED <<ld_metadata, enable_checksum, ld_results, ld_time,
                   ld_last_callback_time>>
    /\ UNCHANGED <<cacheVars, svcVars, poolVars, workerVars, lazyVars,
                   metaVars, previewVars, lockVars, managerVars>>

\* _maybe_trigger_callback, after the progress callback returned: remember
\* the time read before the call; the chunk is yielded
CallbackReturn(l) ==
    /\ l \in DOMAIN streams
    /\ streams[l].pc = "callback"
    /\ ld_last_callback_time' = streams[l].current_time
    /\ streams' = [streams EXCEPT ![l].pc = "yielded", ![l].yielded = @ + 1]
    /\ UNCHANGED <<ld_metadata, ld_hasher, ld_errors, enable_checksum,
                   ld_results, ld_time>>
    /\ UNCHANGED <<cacheVars, svcVars, poolVars, workerVars, lazyVars,
                   metaVars, previewVars, lockVars, managerVars>>

\* the consumer drops the stream before its end: the generator is closed at
\* the yield and only the finally clause runs
StreamClose(l) ==
    /\ l \in DOMAIN streams
    /\ streams[l].pc = "yielded"
    /\ streams' = [streams EXCEPT ![l].pc = "closed", ![l].handle = "closed"]
    /\ UNCHANGED <<ld_metadata, ld_hasher, ld_errors, enable_checksum,
                   ld_results, ld_time, ld_last_callback_time>>
    /\ UNCHANGED <<cacheVars, svcVars, poolVars, workerVars, lazyVars,
                   metaVars, previewVars, lockVars, managerVars>>

\* the chunks a consumer collected from the stream of load l, in read order
ContentChunks(l) == [i \in 1..streams[l].yielded |-> <<l, i>>]

\* load_complete, after its loop over load_stream ended or raised: build the
\* LoadResult from the chunks collected and from self._errors as it is now
LoadCompleteReturn(l) ==
    /\ l \in DOMAIN streams
    /\ streams[l].pc \in {"exhausted", "returned", "raised"}
    /\ l \notin DOMAIN ld_results
    /\ ld_results' = DictSet(ld_results, l,
          [success |-> IF streams[l].pc = "raised" THEN FALSE
                       ELSE Len(ld_errors) = 0,
           content |-> ContentChunks(l),
           metadata |-> ld_metadata,
           errors |-> ld_errors])
    /\ UNCHANGED <<ld_metadata, ld_hasher, ld_errors, enable_checksum, streams,
                   ld_time, ld_last_callback_time>>
    /\ UNCHANGED <<cacheVars, svcVars, poolVars, workerVars, lazyVars,
                   metaVars, previewVars, lockVars, managerVars>>

\* time passes
Tick ==
    /\ ld_time < MaxTime
    /\ ld_time' = ld_time + 1
    /\ UNCHANGED <<ld_metadata, ld_hasher, ld_errors, enable_checksum, streams,
                   ld_results, ld_last_callback_time>>
    /\ UNCHANGED <<cacheVars, svcVars, poolVars, workerVars, lazyVars,
                   metaVars, previewVars, lockVars, managerVars>>

LoaderInit ==
    /\ enable_checksum \in BOOLEAN
    /\ ld_results = <<>>
    /\ ld_metadata = 0
    /\ ld_hasher = <<>>
    /\ ld_errors = <<>>
    /\ streams = <<>>
    /\ ld_time = 0
    /\ ld_last_callback_time = 0

\* the loader of a run that does not use it
LoaderAtRest == LoaderInit /\ enable_checksum

LoaderNext ==
    \/ \E l \in Loads : StreamUnsupported(l)
    \/ \E l \in Loads, step \in BeginSteps : StreamBeginFails(l, step)
    \/ \E l \in Loads : StreamBegin(l)
    \/ \E l \in Loads : StreamNext(l)
    \/ \E l \in Loads : CallbackReturn(l)
    \/ \E l \in Loads : StreamClose(l)
    \/ \E l \in Loads : LoadCompleteReturn(l)
    \/ Tick

(***************************************************************************)
(* LazyFileSystemModel with its LRUMetadataCache (lazy_model.py).  The     *)
(* class constants are scaled down, with CACHE_SIZE not below BATCH_SIZE   *)
(* and FETCH_DISTANCE below it; rows are counted from 0 as in the code, so *)
(* the entry of row r is entries[r + 1].  The hit and miss counters of the *)
(* cache, the icon cache and _sort_column and _sort_order, which sort      *)
(* assigns, are read by no operation modelled here and are left out.       *)
(***************************************************************************)
BATCH_SIZE == 2
CACHE_SIZE == 2
FETCH_DISTANCE == 1

COL_NAME == 0
COL_SIZE == 1
COL_TYPE == 2
COL_MODIFIED == 3
COL_COUNT == 4

\* Qt.SortOrder
AscendingOrder == 0
DescendingOrder == 1

\* Qt.ItemDataRole
DisplayRole == 0
DecorationRole == 1
ToolTipRole == 3
UserRole == 256

\* the files there are, in the order sorted() gives their names
FileNames == <<"a", "b", "c", "d", "e", "f">>

\* the directories a client shows: one the metadata cache can hold whole
\* and one it cannot
Directories == {"small", "big"}

\* paths handed to setRootPath: the directories and one that is none
RootPaths == Directories \cup {"missing"}

\* os.path.isdir(path) for a root path
IsDir(path) == path \in Directories

\* os.listdir(path)
ListDir(path) ==
    IF path = "small"
    THEN { FileNames[i] : i \in 1..CACHE_SIZE }
    ELSE { FileNames[i] : i \in 1..MaxEntries }

\* the strings that are compared, in the order of Python's str comparison
Alphabetical == FileNames \o <<"file", "folder", "txt", "unknown">>

StrRank(s) == CHOOSE i \in DOMAIN Alphabetical : Alphabetical[i] = s

\* str.lower()
Lower(s) ==
    CASE s = "TXT" -> "txt"
      [] s = "File" -> "file"
      [] s = "Folder" -> "folder"
      [] s = "Unknown" -> "unknown"
      [] OTHER -> s

\* sorted(entries) in _load_file_list
SortedNames(names) ==
    LET ranks == { StrRank(n) : n \in names }
        nth(i) == CHOOSE r \in ranks :
                      Cardinality({ q \in ranks : q < r }) = i - 1
    IN  [i \in 1..Cardinality(names) |-> Alphabetical[nth(i)]]

\* os.path.join(root_path, entry)
JoinPath(root, entry) == <<root, entry>>

\* _load_metadata(file_path): what os.stat and os.path.isdir say about the
\* file; every third file is a folder, the others have the suffix .txt or
\* none, and sizes and dates do not follow the names
LoadMetadata(file_path) ==
    LET i == StrRank(file_path[2])
        is_dir == i % 3 = 0
    IN  [size |-> IF is_dir THEN 0 ELSE (3 * i) % 7,
         type |-> IF is_dir THEN "Folder"
                  ELSE IF i % 2 = 1 THEN "TXT" ELSE "File",
         modified |-> (5 * i) % 7,
         is_dir |-> is_dir]

\* LRUMetadataCache: "file_path in self._cache"
CacheHas(c, file_path) == \E i \in 1..Len(c) : c[i].path = file_path

\* LRUMetadataCache: self._cache[file_path]
CacheValue(c, file_path) ==
    (CHOOSE e \in { c[i] : i \in 1..Len(c) } : e.path = file_path).metadata

CacheWithout(c, file_path) == SelectSeq(c, LAMBDA e : e.path # file_path)

\* LRUMetadataCache.get: the cache after the call; a hit moves the entry to
\* the end, the most recently used place
LruGet(c, file_path) ==
    IF CacheHas(c, file_path)
    THEN Append(CacheWithout(c, file_path),
                [path |-> file_path, metadata |-> CacheValue(c, file_path)])
    ELSE c

\* LRUMetadataCache.put: the cache after the call
LruPut(c, file_path, metadata) ==
    LET added == Append(CacheWithout(c, file_path),
                        [path |-> file_path, metadata |-> metadata])
    IN  IF Len(added) > CACHE_SIZE THEN Tail(added) ELSE added

\* "if file_path and not self._metadata_cache.get(file_path): metadata =
\* self._load_metadata(file_path); self._metadata_cache.put(...)", on
\* m = [cache, stats]: the cache and the number of os.stat calls made
GetOrLoad(m, file_path) ==
    IF CacheHas(m.cache, file_path)
    THEN [m EXCEPT !.cache = LruGet(@, file_path)]
    ELSE [m EXCEPT !.cache = LruPut(@, file_path, LoadMetadata(file_path)),
                   !.stats = @ + 1]

\* the loop over file paths around it
RECURSIVE GetOrLoadAll(_, _)
GetOrLoadAll(m, file_paths) ==
    IF file_paths = <<>> THEN m
    ELSE GetOrLoadAll(GetOrLoad(m, Head(file_paths)), Tail(file_paths))

\* _get_file_path(index) for the rows start .. end - 1
FilePaths(root, ents, start, end) ==
    [k \in 1..(end - start) |-> JoinPath(root, ents[start + k])]

\* a _load_batch that never finds its batch loaded
BatchLoadedNever(loaded, batch_index) == FALSE

\* _load_batch: "if batch_index in self._loaded_batches: return"
BatchLoaded(loaded, batch_index) == batch_index \in loaded

\* _load_batch(batch_index) on m = [cache, stats, loaded, signals], signals
\* being the number of batch_loaded signals emitted
LoadBatch(m, root, ents, batch_index) ==
    IF BatchLoaded(m.loaded, batch_index) THEN m
    ELSE LET start_index == batch_index * BATCH_SIZE
             end_index == Min(start_index + BATCH_SIZE, Len(ents))
             after == GetOrLoadAll([cache |-> m.cache, stats |-> m.stats],
                          FilePaths(root, ents, start_index, end_index))
         IN  [cache |-> after.cache, stats |-> after.stats,
              loaded |-> m.loaded \cup {batch_index},
              signals |-> m.signals + 1]

\* prefetch: "for batch_index in range(start_batch, end_batch)"
RECURSIVE PrefetchBatches(_, _, _, _, _)
PrefetchBatches(m, root, ents, batch_index, end_batch) ==
    IF batch_index >= end_batch THEN m
    ELSE PrefetchBatches(
             IF batch_index * BATCH_SIZE < Len(ents)
             THEN LoadBatch(m, root, ents, batch_index) ELSE m,
             root, ents, batch_index + 1, end_batch)

\* what sort_key returns for an entry: a str or an int, strings by their
\* place in Python's order; the key of an entry whose metadata the cache
\* does not hold is the int 0
SortKey(c, root, column, entry) ==
    LET file_path == JoinPath(root, entry)
    IN  IF column = COL_NAME
        THEN [str |-> TRUE, v |-> StrRank(Lower(entry))]
        ELSE IF ~CacheHas(c, file_path) THEN [str |-> FALSE, v |-> 0]
        ELSE IF column = COL_SIZE
        THEN [str |-> FALSE, v |-> CacheValue(c, file_path).size]
        ELSE IF column = COL_TYPE
        THEN [str |-> TRUE, v |-> StrRank(Lower(CacheValue(c, file_path).type))]
        ELSE [str |-> FALSE, v |-> CacheValue(c, file_path).modified]

\* list.sort(key=..., reverse=...) given the keys of the elements: stable,
\* also when reversed
StableSort(seq, keys, reverse) ==
    LET n == Len(seq)
        Before(m, k) ==
            \/ IF reverse THEN keys[m].v > keys[k].v ELSE keys[m].v < keys[k].v
            \/ keys[m].v = keys[k].v /\ m < k
        place(i) == CHOOSE k \in 1..n :
                        Cardinality({ m \in 1..n : Before(m, k) }) = i - 1
    IN  [i \in 1..n |-> seq[place(i)]]

\* the orders a list can be left in by a sort that raised
Reorderings(seq) ==
    { [i \in 1..Len(seq) |-> seq[p[i]]] : p \in Permutations(1..Len(seq)) }

\* the calls of sort_key in list order: each is a get of the cache
RECURSIVE GetAll(_, _)
GetAll(c, file_paths) ==
    IF file_paths = <<>> THEN c
    ELSE GetAll(LruGet(c, Head(file_paths)), Tail(file_paths))

\* rows a view asks for
Rows == 0..(MaxEntries - 1)

\* no prefetch call is being followed
Unwatched == <<>>

\* setRootPath(path)
SetRootPath(path) ==
    /\ IF ~IsDir(path)
       THEN UNCHANGED <<root_path, entries, total_count, metadata_cache,
                        loaded_batches, watched>>
       ELSE /\ root_path' = path
            /\ entries' = SortedNames(ListDir(path))
            /\ total_count' = Len(entries')
            /\ metadata_cache' = <<>>
            /\ loaded_batches' = {}
            /\ watched' = Unwatched
    /\ repeated' = FALSE
    /\ UNCHANGED <<cacheVars, svcVars, poolVars, loaderVars, workerVars,
                   metaVars, previewVars, lockVars, managerVars>>

\* refresh()
Refresh ==
    IF root_path # ""
    THEN SetRootPath(root_path)
    ELSE /\ repeated' = FALSE
         /\ UNCHANGED <<root_path, entries, total_count, metadata_cache,
                        loaded_batches, watched>>
         /\ UNCHANGED <<cacheVars, svcVars, poolVars, loaderVars,
                        workerVars, metaVars, previewVars, lockVars,
                        managerVars>>

\* what prefetch(visible_start, visible_end) does: the cache and the loaded
\* batches it leaves, the number of os.stat calls it makes and the number
\* of batch_loaded signals it emits
PrefetchDoes(visible_start, visible_end) ==
    LET start_batch ==
            Max(0, (visible_start - FETCH_DISTANCE) \div BATCH_SIZE)
        end_batch == ((visible_end + FETCH_DISTANCE) \div BATCH_SIZE) + 1
    IN  PrefetchBatches([cache |-> metadata_cache, stats |-> 0,
                         loaded |-> loaded_batches, signals |-> 0],
                        root_path, entries, start_batch, end_batch)

\* prefetch(visible_start, visible_end); watched follows one earlier call
\* of it, any of those made since the model was last reset
Prefetch(visible_start, visible_end) ==
    /\ visible_start <= visible_end
    /\ LET m == PrefetchDoes(visible_start, visible_end)
       IN  /\ metadata_cache' = m.cache
           /\ loaded_batches' = m.loaded
    /\ repeated' = (watched = <<visible_start, visible_end>>)
    /\ watched' \in {watched, <<visible_start, visible_end>>}
    /\ UNCHANGED <<root_path, entries, total_count>>
    /\ UNCHANGED <<cacheVars, svcVars, poolVars, loaderVars, workerVars,
                   metaVars, previewVars, lockVars, managerVars>>

\* what data(index, role) does for a valid index, with the value it returns
\* for the columns that need metadata
DataDoes(row, column, role) ==
    LET file_path == JoinPath(root_path, entries[row + 1])
        start == [cache |-> metadata_cache, stats |-> 0,
                  loaded |-> loaded_batches, signals |-> 0]
        display == role = DisplayRole /\ column # COL_NAME
        gets == \/ display
                \/ role = DecorationRole /\ column = COL_NAME
                \/ role = UserRole /\ column # COL_NAME
        ensured ==
            IF display /\ ~CacheHas(metadata_cache, file_path)
            THEN LoadBatch(start, root_path, entries, row \div BATCH_SIZE)
            ELSE start
    IN  [cache |-> IF gets THEN LruGet(ensured.cache, file_path)
                   ELSE metadata_cache,
         loaded |-> ensured.loaded,
         stats |-> ensured.stats,
         value |-> IF display /\ ~CacheHas(ensured.cache, file_path)
                   THEN "Loading..." ELSE "data"]

\* data(index, role) for a valid index
Data(row, column, role) ==
    /\ row < total_count
    /\ LET m == DataDoes(row, column, role)
       IN  /\ metadata_cache' = m.cache
           /\ loaded_batches' = m.loaded
    /\ repeated' = FALSE
    /\ UNCHANGED <<root_path, entries, total_count, watched>>
    /\ UNCHANGED <<cacheVars, svcVars, poolVars, loaderVars, workerVars,
                   metaVars, previewVars, lockVars, managerVars>>

\* getFileInfo(index) for a valid index
GetFileInfo(row) ==
    /\ row < total_count
    /\ metadata_cache' =
          GetOrLoad([cache |-> metadata_cache, stats |-> 0],
                    JoinPath(root_path, entries[row + 1])).cache
    /\ repeated' = FALSE
    /\ UNCHANGED <<root_path, entries, total_count, loaded_batches, watched>>
    /\ UNCHANGED <<cacheVars, svcVars, poolVars, loaderVars, workerVars,
                   metaVars, previewVars, lockVars, managerVars>>

\* sort(column, order), first part: the cache after "load metadata for all
\* entries if sorting by metadata columns"
SortLoads(column) ==
    IF column # COL_NAME
    THEN GetOrLoadAll([cache |-> metadata_cache, stats |-> 0],
                      FilePaths(root_path, entries, 0, total_count)).cache
    ELSE metadata_cache

\* comparing a str key with an int key raises TypeError
SortRaises(keys) == \E i, j \in 1..Len(keys) : keys[i].str # keys[j].str

\* what sort(column, order) does for a column there is: the cache it
\* leaves, the keys sort_key returned for the entries and the orders it
\* can leave the entries in; a TypeError leaves the list in some order
SortDoes(column, order) ==
    LET loaded == SortLoads(column)
        keys == [i \in 1..Len(entries) |->
                    SortKey(loaded, root_path, column, entries[i])]
    IN  [cache |-> IF column # COL_NAME
                   THEN GetAll(loaded,
                               FilePaths(root_path, entries, 0, total_count))
                   ELSE metadata_cache,
         raises |-> SortRaises(keys),
         orders |-> IF SortRaises(keys) THEN Reorderings(entries)
                    ELSE {StableSort(entries, keys, order = DescendingOrder)}]

\* sort(column, order)
Sort(column, order) ==
    /\ IF column < 0 \/ column >= COL_COUNT
       THEN UNCHANGED <<entries, metadata_cache>>
       ELSE LET m == SortDoes(column, order)
            IN  /\ metadata_cache' = m.cache
                /\ entries' \in m.orders
    /\ repeated' = FALSE
    /\ UNCHANGED <<root_path, total_count, loaded_batches, watched>>
    /\ UNCHANGED <<cacheVars, svcVars, poolVars, loaderVars, workerVars,
                   metaVars, previewVars, lockVars, managerVars>>

\* LazyFileSystemModel.__init__
LazyInit ==
    /\ root_path = ""
    /\ entries = <<>>
    /\ total_count = 0
    /\ metadata_cache = <<>>
    /\ loaded_batches = {}
    /\ watched = Unwatched
    /\ repeated = FALSE

LazyNext ==
    \/ \E path \in RootPaths : SetRootPath(path)
    \/ Refresh
    \/ \E first \in Rows, last \in Rows : Prefetch(first, last)
    \/ \E row \in Rows, column \in {COL_NAME, COL_SIZE},
          role \in {DisplayRole, DecorationRole, ToolTipRole, UserRole} :
          Data(row, column, role)
    \/ \E row \in Rows : GetFileInfo(row)
    \/ \E column \in 0..COL_COUNT,
          order \in {AscendingOrder, DescendingOrder} : Sort(column, order)

(***************************************************************************)
(* DocumentProcessingService: the metadata cache, a dict with a list of    *)
(* its keys in access order.  _cache_metadata, _get_cached_metadata and    *)
(* clear_cache hold _cache_lock from their first statement to their last,  *)
(* so each call is one step.  A reference LRU map is given the same calls. *)
(***************************************************************************)
\* cache_size, scaled down
cache_size == 3

\* the sources, and the DocumentMetadata objects extracted for a source
MetaSources == 1..MaxSources
Metadatas == {"m1", "m2"}

\* list.remove(x): the list without the first occurrence of x
ListRemove(list, x) ==
    IF \E i \in 1..Len(list) : list[i] = x
    THEN LET i == CHOOSE i \in 1..Len(list) :
                      list[i] = x /\ \A j \in 1..(i - 1) : list[j] # x
         IN  SubSeq(list, 1, i - 1) \o SubSeq(list, i + 1, Len(list))
    ELSE list

\* x in list
ListHas(list, x) == \E i \in 1..Len(list) : list[i] = x

\* _cache_metadata: the dict and the list it leaves, and the key it evicted
CacheMetadataDoes(c, order, source, metadata) ==
    LET removed == IF source \in DOMAIN c THEN ListRemove(order, source)
                   ELSE order
        cached == DictSet(c, source, metadata)
        appended == Append(removed, source)
    IN  IF Cardinality(DOMAIN cached) > cache_size
        THEN [cache |-> DictPop(cached, Head(appended)),
              order |-> Tail(appended), evicted |-> Head(appended)]
        ELSE [cache |-> cached, order |-> appended, evicted |-> 0]

\* _get_cached_metadata on a key that is not moved: the mutation of the
\* update of the access order
AccessedLeftInPlace(order, source) == order

\* _get_cached_metadata, the update of the access order: move to the end
Accessed(order, source) ==
    Append(IF ListHas(order, source) THEN ListRemove(order, source) ELSE order,
           source)

\* the reference LRU map of capacity cache_size: its entries from the least
\* to the most recently inserted or read
RefWithout(r, k) == SelectSeq(r, LAMBDA e : e.key # k)
RefHas(r, k) == \E i \in 1..Len(r) : r[i].key = k
RefPut(r, k, v) ==
    LET added == Append(RefWithout(r, k), [key |-> k, value |-> v])
    IN  IF Len(added) > cache_size THEN Tail(added) ELSE added
RefGet(r, k) ==
    IF RefHas(r, k)
    THEN Append(RefWithout(r, k),
                r[CHOOSE i \in 1..Len(r) : r[i].key = k])
    ELSE r

\* no key was evicted
NotEvicted == [key |-> 0, oldest |-> 0]

CacheMetadata(source, metadata) ==
    /\ LET n == CacheMetadataDoes(svc_metadata_cache, svc_access_order,
                                  source, metadata)
       IN  /\ svc_metadata_cache' = n.cache
           /\ svc_access_order' = n.order
           /\ meta_evicted' = [key |-> n.evicted,
                               oldest |-> IF n.evicted = 0 THEN 0
                                          ELSE Head(meta_inserted)]
           /\ meta_inserted' =
                 ListRemove(Append(ListRemove(meta_inserted, source), source),
                            n.evicted)
    /\ ref_lru' = RefPut(ref_lru, source, metadata)
    /\ UNCHANGED <<cacheVars, svcVars, poolVars, loaderVars, workerVars,
                   lazyVars, previewVars, lockVars, managerVars>>

\* _get_cached_metadata: a DocumentMetadata object is true, so that
\* 'if metadata' is the test that the key is cached
GetCachedMetadata(source) ==
    /\ svc_access_order' =
          IF source \in DOMAIN svc_metadata_cache
          THEN Accessed(svc_access_order, source)
          ELSE svc_access_order
    /\ ref_lru' = RefGet(ref_lru, source)
    /\ meta_evicted' = NotEvicted
    /\ UNCHANGED <<svc_metadata_cache, meta_inserted>>
    /\ UNCHANGED <<cacheVars, svcVars, poolVars, loaderVars, workerVars,
                   lazyVars, previewVars, lockVars, managerVars>>

ClearCache ==
    /\ svc_metadata_cache' = <<>>
    /\ svc_access_order' = <<>>
    /\ ref_lru' = <<>>
    /\ meta_inserted' = <<>>
    /\ meta_evicted' = NotEvicted
    /\ UNCHANGED <<cacheVars, svcVars, poolVars, loaderVars, workerVars,
                   lazyVars, previewVars, lockVars, managerVars>>

MetaInit ==
    /\ svc_metadata_cache = <<>>
    /\ svc_access_order = <<>>
    /\ ref_lru = <<>>
    /\ meta_inserted = <<>>
    /\ meta_evicted = NotEvicted

MetaNext ==
    \/ \E source \in MetaSources, metadata \in Metadatas :
          CacheMetadata(source, metadata)
    \/ \E source \in MetaSources : GetCachedMetadata(source)
    \/ ClearCache

(***************************************************************************)
(* DocumentProcessingService.get_preview, called on any thread, for        *)
(* sources of the same loader.  The sizes are scaled down; the sources are *)
(* ASCII text, of which a character is a byte.  A step of a call runs up   *)
(* to the next chunk it takes from the stream, then to its return.         *)
(***************************************************************************)
\* UnifiedDocumentLoader.DEFAULT_CHUNK_SIZE, the 4096 of get_preview and
\* preview_max_size, scaled down
DEFAULT_CHUNK_SIZE == 3
PreviewChunkSize == 2
preview_max_size == 2

\* the get_preview calls, in the order they are made
Previews == 1..MaxPreviews

\* the contents of the sources
Chars == {"x", "\n"}
Texts == UNION { [1..n -> Chars] : n \in 0..MaxTextLen }

\* chunk.count("\n")
CountNewlines(chunk) == Cardinality({ i \in 1..Len(chunk) : chunk[i] = "\n" })

\* len(c.encode()) of ASCII text
EncodedLen(chunk) == Len(chunk)

\* sum(len(c.encode()) for c in preview_chunks)
TotalSize(chunks) ==
    LET sum[i \in 0..Len(chunks)] ==
            IF i = 0 THEN 0 ELSE sum[i - 1] + EncodedLen(chunks[i])
    IN  sum[Len(chunks)]

\* "".join(preview_chunks)
Join(chunks) ==
    LET joined[i \in 0..Len(chunks)] ==
            IF i = 0 THEN <<>> ELSE joined[i - 1] \o chunks[i]
    IN  joined[Len(chunks)]

\* file_obj.read(size) at position pos of the source
FileRead(text, pos, size) == SubSeq(text, pos + 1, Min(pos + size, Len(text)))

\* a get_preview call when it is made
NewPreview ==
    [pc |-> "called", text |-> <<>>, max_lines |-> 0, original_chunk_size |-> 0,
     pos |-> 0, preview_chunks |-> <<>>, line_count |-> 0,
     preview_text |-> <<>>]

\* get_preview for a source no loader handles: returns None
GetPreviewNoLoader ==
    /\ Len(previews) < MaxPreviews
    /\ previews' = Append(previews, [NewPreview EXCEPT !.pc = "none"])
    /\ UNCHANGED chunk_size
    /\ UNCHANGED <<cacheVars, svcVars, poolVars, loaderVars, workerVars,
                   lazyVars, metaVars, lockVars, managerVars>>

\* get_preview up to the start of its loop: remember loader.chunk_size and
\* lower it
GetPreviewBegin(text, max_lines) ==
    /\ Len(previews) < MaxPreviews
    /\ previews' = Append(previews,
          [NewPreview EXCEPT !.pc = "streaming", !.text = text,
                             !.max_lines = max_lines,
                             !.original_chunk_size = chunk_size])
    /\ chunk_size' = Min(chunk_size, PreviewChunkSize)
    /\ UNCHANGED <<cacheVars, svcVars, poolVars, loaderVars, workerVars,
                   lazyVars, metaVars, lockVars, managerVars>>

\* get_preview, one pass of its loop: the stream reads loader.chunk_size
\* bytes; at the end of the source the loop ends, else the chunk is kept
\* and counted, and the loop ends when a limit is reached
GetPreviewChunk(p) ==
    /\ p \in DOMAIN previews
    /\ previews[p].pc = "streaming"
    /\ LET call == previews[p]
           chunk == FileRead(call.text, call.pos, chunk_size)
           chunks == Append(call.preview_chunks, chunk)
           lines == call.line_count + CountNewlines(chunk)
       IN  previews' = [previews EXCEPT ![p] =
             IF chunk = <<>>
             THEN [call EXCEPT !.pc = "joining"]
             ELSE [call EXCEPT
                     !.pos = @ + Len(chunk),
                     !.preview_chunks = chunks,
                     !.line_count = lines,
                     !.pc = IF lines >= call.max_lines THEN "joining"
                            ELSE IF TotalSize(chunks) > preview_max_size
                                 THEN "joining"
                                 ELSE "streaming"]]
    /\ UNCHANGED chunk_size
    /\ UNCHANGED <<cacheVars, svcVars, poolVars, loaderVars, workerVars,
                   lazyVars, metaVars, lockVars, managerVars>>

\* get_preview, the stream raises: the exception leaves the loop
GetPreviewFails(p) ==
    /\ p \in DOMAIN previews
    /\ previews[p].pc = "streaming"
    /\ previews' = [previews EXCEPT ![p].pc = "failing"]
    /\ UNCHANGED chunk_size
    /\ UNCHANGED <<cacheVars, svcVars, poolVars, loaderVars, workerVars,
                   lazyVars, metaVars, lockVars, managerVars>>

\* get_preview after its loop: join the chunks, or let the exception pass,
\* and restore loader.chunk_size in the finally clause
GetPreviewReturn(p) ==
    /\ p \in DOMAIN previews
    /\ previews[p].pc \in {"joining", "failing"}
    /\ LET call == previews[p]
       IN  previews' = [previews EXCEPT ![p] =
             IF call.pc = "joining"
             THEN [call EXCEPT !.pc = "returned",
                               !.preview_text = Join(call.preview_chunks)]
             ELSE [call EXCEPT !.pc = "raised"]]
    /\ chunk_size' = previews[p].original_chunk_size
    /\ UNCHANGED <<cacheVars, svcVars, poolVars, loaderVars, workerVars,
                   lazyVars, metaVars, lockVars, managerVars>>

PreviewInit ==
    /\ chunk_size = DEFAULT_CHUNK_SIZE
    /\ previews = <<>>

PreviewNext ==
    \/ GetPreviewNoLoader
    \/ \E text \in Texts, max_lines \in 1..MaxLines :
          GetPreviewBegin(text, max_lines)
    \/ \E p \in Previews : GetPreviewChunk(p)
    \/ \E p \in Previews : GetPreviewFails(p)
    \/ \E p \in Previews : GetPreviewReturn(p)

(***************************************************************************)
(* Specifications.                                                         *)
(***************************************************************************)
CacheInit ==
    /\ fs \in [Files -> {[exists |-> TRUE, mtime |-> 1], [exists |-> FALSE, mtime |-> 0]}]
    /\ clock = 0
    /\ cache = <<>>
    /\ current_size_bytes = 0
    /\ stats = [hits |-> 0, misses |-> 0, evictions |-> 0]
    /\ enable_stats \in BOOLEAN
    /\ gpc = [t \in CacheThreads |-> "idle"]
    /\ gsrc = [t \in CacheThreads |-> ""]
    /\ gres = [t \in CacheThreads |-> NoneResult]
    /\ lastPut = [k \in CacheKeys |-> NoneResult]

CacheNext ==
    \/ \E s \in Sources, c \in PutContents, ok \in BOOLEAN : Put(s, c, ok)
    \/ \E t \in CacheThreads, s \in Sources : GetBegin(t, s)
    \/ \E t \in CacheThreads : GetLoad(t)
    \/ \E t \in CacheThreads : GetStore(t)
    \/ \E s \in Sources : Invalidate(s)
    \/ \E p \in Patterns : InvalidatePattern(p)
    \/ InvalidateStale
    \/ Clear
    \/ \E f \in Files : ModifyFile(f)
    \/ \E f \in Files : DeleteFile(f)
    \/ \E f \in Files : CreateFile(f)

\* the cache of a run that does not use it
CacheAtRest == CacheInit /\ ~enable_stats /\ \A f \in Files : ~fs[f].exists

\* every object as constructed, the cache with any configuration
Init == CacheInit /\ SvcInit /\ PoolInit /\ LoaderAtRest /\ WorkerInit
    /\ MetaInit /\ PreviewInit /\ LazyInit /\ LockInit /\ ManagerInit

\* every object as constructed, the cache unused
InitAtRest == CacheAtRest /\ SvcInit /\ PoolInit /\ LoaderAtRest /\ WorkerInit
    /\ MetaInit /\ PreviewInit /\ LazyInit /\ LockInit /\ ManagerInit

CacheSpec == Init /\ [][CacheNext]_vars

ServiceSpec == InitAtRest /\ [][SvcNext]_vars

\* every object as constructed, the loader with any configuration
InitLoader == CacheAtRest /\ SvcInit /\ PoolInit /\ LoaderInit /\ WorkerInit
    /\ MetaInit /\ PreviewInit /\ LazyInit /\ LockInit /\ ManagerInit

LoaderSpec == InitLoader /\ [][LoaderNext]_vars

WorkerSpec == InitAtRest /\ [][WorkerNext]_vars

LazySpec == InitAtRest /\ [][LazyNext]_vars

MetaCacheSpec == InitAtRest /\ [][MetaNext]_vars

PreviewSpec == InitAtRest /\ [][PreviewNext]_vars

PoolSpec == InitAtRest /\ [][PoolNext]_vars

PoolResetSpec == InitAtRest /\ [][PoolResetNext]_vars

LockSpec == InitAtRest /\ [][LockNext]_vars

ManagerSpec == InitAtRest /\ [][ManagerNext]_vars

\* the pool whose dispatcher and executor threads keep being scheduled, and
\* whose loader attempts terminate: while one of them can take a step, one
\* of them does.  Nothing is assumed of the client thread.
PoolFairSpec ==
    /\ InitAtRest
    /\ [][PoolNext]_vars
    /\ WF_vars(DispatchNext)


(***************************************************************************)
(* Claims about DocumentCache.                                             *)
(***************************************************************************)
\* the entry the dict holds for the key of source
EntryFor(source) == cache[IndexOf(cache, MakeCacheKey(source))]

\* C1: after every cache operation the tracked byte total
\* _current_size_bytes equals the sum of size_bytes over the entries
\* currently in the cache.
C1_SizeMatchesEntries ==
    current_size_bytes = SumSizes(cache)

\* C2: after any put returns, the cache's byte total is at most
\* max_size_bytes and its entry count is at most max_documents.
C2_WithinLimits ==
    /\ current_size_bytes <= MaxSizeBytes
    /\ Len(cache) <= MaxDocuments

\* C3: whenever a put evicts to make room, it removes the least recently
\* used entries: if an entry b leaves the cache in the step, no entry a with
\* a.last_accessed < b.last_accessed is still in the cache after it.
C3_EvictsLeastRecentlyUsed ==
    [][ (clock' # clock) =>
          \A i, j \in 1..Len(cache) :
             ( /\ cache[i].last_accessed < cache[j].last_accessed
               /\ cache[j].key \notin Keys(cache') )
             => ~(\E k \in 1..Len(cache') : cache'[k] = cache[i]) ]_vars

\* the file of a file source is gone, or newer than the entry cached for it
FileStale(source) ==
    /\ FileOf(source) # ""
    /\ MakeCacheKey(source) \in Keys(cache)
    /\ \/ ~fs[FileOf(source)].exists
       \/ fs[FileOf(source)].mtime > EntryFor(source).file_modified_at

\* C4: get never returns a cached entry as a hit when the source file no
\* longer exists or its mtime is greater than the mtime recorded with the
\* entry; such a get takes the miss path and is counted as a miss (not as a
\* hit) in the statistics.
C4_StaleNeverHit ==
    [][ \A t \in CacheThreads, s \in Sources :
          (clock' # clock /\ FileStale(s) /\ GetBegin(t, s)) =>
             /\ ~GetHit(s)
             /\ gpc'[t] = "load"
             /\ stats'.hits = stats.hits
             /\ enable_stats => stats'.misses = stats.misses + 1 ]_vars

\* C4 witness: a get of a file source is on the miss path although an entry
\* for its key, recorded with an older mtime, is cached.
C4_Witness ==
    \E t \in CacheThreads :
       /\ gpc[t] = "load"
       /\ gsrc[t] = "a"
       /\ fs["fa"].exists
       /\ "/a" \in Keys(cache)
       /\ fs["fa"].mtime > EntryFor("a").file_modified_at
       /\ EntryFor("a").last_accessed < clock
       /\ stats.misses = 1 /\ stats.hits = 0

\* C9: a put whose entry's size alone exceeds max_size_bytes is rejected: it
\* returns false and the key is not in the cache afterwards.
C9_OversizePutRejected ==
    [][ \A s \in Sources, c \in PutContents :
          (Put(s, c, TRUE) /\ CalculateSize(c) > MaxSizeBytes) =>
             /\ ~PutReturns(LoadResult(TRUE, c, s, 1))
             /\ MakeCacheKey(s) \notin Keys(cache') ]_vars

\* C10: put(source, r) followed by get(source), with no eviction or
\* invalidation of the key and no modification of the source in between, is
\* a hit that returns success=true, r's chunks in order and r's metadata with
\* load_time 0, and does not go on to a loader.
C10_PutThenGetIsHit ==
    [][ \A t \in CacheThreads, s \in Sources :
          (GetBegin(t, s) /\ ~lastPut[MakeCacheKey(s)].isNone) =>
             /\ GetHit(s)
             /\ GetHitResult(s).success
             /\ GetHitResult(s).content = lastPut[MakeCacheKey(s)].content
             /\ GetHitResult(s).metadata = lastPut[MakeCacheKey(s)].metadata
             /\ GetHitResult(s).load_time = 0
             /\ gpc'[t] = "idle" ]_vars

\* the cached entries whose source is not a file path
NonFileEntries(od) ==
    { i \in 1..Len(od) : FileOf(od[i].metadata.source) = "" }

\* C11: an entry stored for a source that is not a file path is never
\* treated as stale: is_stale is false of it, invalidate_stale leaves it in
\* the cache, and a get of its source is a hit.
C11_NonFileNeverStale ==
    [][ /\ \A i \in NonFileEntries(cache) :
              ~IsStale(cache[i], cache[i].metadata.source)
        /\ InvalidateStale =>
              \A i \in NonFileEntries(cache) : cache[i].key \in Keys(cache')
        /\ \A t \in CacheThreads, s \in Sources :
              (GetBegin(t, s) /\ FileOf(s) = "" /\ MakeCacheKey(s) \in Keys(cache))
                 => gpc'[t] = "idle" ]_vars

\* C30: the step of get that finds a stale entry for the key, under the
\* lock and before anything is reloaded, takes that entry out of the cache
\* and subtracts its bytes from the byte total, so that no stale entry for
\* the key is left whatever becomes of the reload.
C30_StaleEntryDropped ==
    [][ \A t \in CacheThreads, s \in Sources :
          (GetBegin(t, s) /\ FileStale(s)) =>
             /\ MakeCacheKey(s) \notin Keys(cache')
             /\ current_size_bytes' =
                   current_size_bytes - EntryFor(s).size_bytes ]_vars

\* C37: the modification time recorded with a cache entry is never newer
\* than the version of the file whose content the entry holds, so that a
\* file modified while get was loading it is not answered later with the
\* content from before the modification.  The content get loads carries the
\* modification time of the file it was read from.
C37_EntryMtimeNotNewerThanContent ==
    \A i \in 1..Len(cache) :
        ( /\ FileOf(cache[i].key) # ""
          /\ Len(cache[i].content) = 1
          /\ cache[i].content[1].txt \in Mtimes )
        => cache[i].file_modified_at <= cache[i].content[1].txt

(***************************************************************************)
(* Claims about DocumentProcessingService.                                 *)
(***************************************************************************)
\* the futures of the loads of a source whose task is inside load_complete
Loading(source) ==
    { f \in 1..Len(futures) :
        futures[f].source = source /\ futures[f].tpc = "loading" }

\* C5: concurrent load_async calls for one source share a single load: while
\* a load of a source is in flight the loader is not invoked again for that
\* source, so at no time are two loader invocations for it under way.
C5_LoaderInvokedOncePerSource ==
    \A s \in SvcSources : Cardinality(Loading(s)) <= 1

\* C7: cancel_all_loads always returns, whatever is in flight: the thread in
\* it never waits for a lock that it holds itself; and the value it returns
\* is the number of operations it took out of the active map.
C7_CancelAllLoadsReturns ==
    /\ mpc = "cancel_all_call" => active_lock # "main"
    /\ mpc = "cancel_all_return" =>
          /\ cancelled_count <= Len(futures)
          /\ cancelled_count =
                Cardinality({ f \in 1..Len(futures) :
                                futures[f].fstate = "cancelled" })

\* no call of the service is under way and every submitted task has ended
\* or was cancelled before it started
ServiceQuiet ==
    /\ mpc = "idle"
    /\ \A f \in 1..Len(futures) : Done(futures[f])

\* C17: when a load_async whose caller passed both callbacks fails with
\* NO_LOADER or LOAD_EXCEPTION, on_error has been called exactly once, with
\* that error code, and on_complete has been called exactly once, with a
\* result whose success is false, by the time the task has ended.
C17_FailureCallsBothCallbacks ==
    \A f \in 1..Len(futures) :
        ( /\ futures[f].fstate = "done"
          /\ futures[f].outcome \in {"NO_LOADER", "LOAD_EXCEPTION"}
          /\ futures[f].on_error
          /\ futures[f].on_complete )
        => /\ futures[f].error_calls = <<futures[f].outcome>>
           /\ futures[f].complete_calls = <<FALSE>>

\* C18: once the service is at rest, an operation that cancel_load reported
\* as cancelled has had no on_complete call, and has had one on_error call,
\* with the error code CANCELLED, exactly when its caller passed on_error.
C18_CancelledCallsOnErrorOnly ==
    ServiceQuiet =>
        \A f \in 1..Len(futures) :
            futures[f].fstate = "cancelled"
            => /\ futures[f].complete_calls = <<>>
               /\ futures[f].error_calls =
                     IF futures[f].on_error THEN <<"CANCELLED">> ELSE <<>>

\* C27: the operation ids load_async has returned are pairwise different,
\* also those of calls for the same source that follow each other at once.
C27_OperationIdsDiffer ==
    \A f, g \in 1..Len(futures) :
        f # g => futures[f].id # futures[g].id

\* C29: once the task of an operation has finished and the load_async call
\* that submitted it has returned, the id of the operation is not in the
\* active map, whichever of the two threads ran first; the operations to
\* which the id was given twice are left aside.
C29_FinishedOperationLeavesMap ==
    \A f \in 1..Len(futures) :
        ( /\ futures[f].fstate = "done"
          /\ ~(mpc = "register" /\ m_op.future = f)
          /\ \A g \in 1..Len(futures) :
                g # f => futures[g].id # futures[f].id )
        => futures[f].id \notin DOMAIN active_loads

\* C31: no loader instance runs the load of two tasks at the same time.
\* The registry returns the same loader instance for the same source, so
\* two load_task calls that are inside load_complete are for sources of
\* different loaders.
C31_OneTaskPerLoader ==
    \A f, g \in 1..Len(futures) :
        ( /\ f # g
          /\ futures[f].tpc = "loading"
          /\ futures[g].tpc = "loading" )
        => futures[f].source # futures[g].source

\* C39: an on_progress callback passed to load_async is called only with the
\* progress of the load it was passed to: never for the load of another
\* call, and a load started without on_progress calls no callback of an
\* earlier caller.
C39_ProgressOfOwnLoadOnly ==
    \A f \in 1..Len(futures) : futures[f].progress_calls \subseteq {f}

(***************************************************************************)
(* Claims about FileLoaderThread.                                          *)
(***************************************************************************)
\* nothing is queued, submitted or running and the dispatcher is between
\* two batches
PoolQuiet ==
    /\ dpc = "loop"
    /\ upc = "idle"
    /\ queue = <<>>
    /\ DOMAIN active_workers = {}
    /\ \A w \in 1..Len(workers) : workers[w].fstate = "collected"

\* C6: every source add_file admitted gets exactly one terminal outcome.
\* Without cancel_all, once the running pool has nothing left to do, each
\* path has had as many file_loaded and file_failed signals together as
\* add_file calls admitted it: none was dropped without a signal.
C6_AdmittedSourceHasOneOutcome ==
    (~stop_event /\ PoolQuiet) =>
        \A path \in Paths :
            file_loaded[path] + file_failed[path] = admitted[path]

\* the executor is shut down, no load is pending or running, load_finished
\* was emitted
PoolFinished ==
    /\ dpc = "finished"
    /\ executor = "None"
    /\ signals.load_finished = 1
    /\ \A w \in 1..Len(workers) : workers[w].fstate \notin {"pending", "running"}

\* C8: once cancel_all was called on a started FileLoaderThread the loop of
\* run eventually exits, the executor is shut down with no worker running
\* and load_finished is emitted; and the loop has not been left in any state
\* where the stop flag is not set.
C8_CancelAllEndsDispatcher ==
    /\ [](dpc \in {"shutdown", "finished"} => stop_event)
    /\ [](stop_event /\ dpc # "not_started" => <>PoolFinished)

\* the dispatcher finished after a cancel_all that a running worker observed
C8_Witness ==
    /\ PoolFinished
    /\ stop_event
    /\ \E w \in 1..Len(workers) : workers[w].result = "Load cancelled"

\* how often a path is in the queue
Queued(path) == Cardinality({ i \in 1..Len(queue) : queue[i][3] = path })

\* how often a path is in the in-flight set
InFlight(path) == IF path \in DOMAIN active_workers THEN 1 ELSE 0

\* C15: add_file for a source that is already queued or in flight is
\* ignored, so no source is more than once in the queue and the in-flight
\* set taken together.
C15_NoDuplicateAdmission ==
    \A path \in Paths : Queued(path) + InFlight(path) <= 1

\* item x has a smaller priority number than item y, or the same priority
\* and an earlier enqueue time
Precedes(x, y) == x[1] < y[1] \/ (x[1] = y[1] /\ x[2] < y[2])

\* C16: the dispatcher takes tasks off the queue in ascending (priority,
\* enqueue time) order: when it takes the i-th item of a batch, no task that
\* precedes it is still queued.
C16_PulledInPriorityOrder ==
    [][ RunLoop =>
          \A i \in 1..(Len(queue) - Len(queue')), k \in 1..Len(queue) :
              k > i => ~Precedes(queue[k], queue[i]) ]_vars

\* a batch whose first item was enqueued after its second one and overtook it
C16_Witness ==
    /\ dpc = "submit"
    /\ Len(batch) = 2
    /\ batch[1][1] < batch[2][1]
    /\ batch[1][2] > batch[2][2]

\* C28: when the dispatcher handles a worker outcome that is a failure and
\* the retry count of the source is below the cap, the count is one more
\* and the queue holds one more item, the source at low priority, once the
\* failure is handled; when the count has reached the cap, file_failed is
\* emitted for the source and its count is cleared.
C28_FailureRequeuedAtLowPriority ==
    [][ ResultsNext =>
          \A w \in futs \ futs' :
              (~stop_event /\ workers[w].result # "ok") =>
                  LET path == workers[w].file_path IN
                  IF retry_counts[path] < MaxRequeues
                  THEN /\ retry_counts'[path] = retry_counts[path] + 1
                       /\ Len(queue') = Len(queue) + 1
                       /\ \E i \in 1..Len(queue') :
                              /\ queue'[i][1] = PRIORITY_LOW
                              /\ queue'[i][3] = path
                       /\ file_failed' = file_failed
                  ELSE /\ file_failed'[path] = file_failed[path] + 1
                       /\ retry_counts'[path] = 0
                       /\ queue' = queue ]_vars

\* C33: an outcome a worker produced because it was cancelled is never
\* retried: the step of the dispatcher that takes the future of such a
\* worker out of the futures it waits for leaves every retry count and the
\* queue as they were, whatever cancel_all and the dispatcher did before.
C33_CancelledOutcomeNotRetried ==
    [][ \A w \in futs :
          ( /\ futs' # futs
            /\ w \notin futs'
            /\ workers[w].fstate = "done"
            /\ workers[w].result = "Load cancelled" )
          => ( /\ retry_counts' = retry_counts
               /\ queue' = queue
               /\ total_tasks' = total_tasks ) ]_vars

\* a worker returned the outcome of a cancellation while the dispatcher was
\* waiting for its future, and the dispatcher has left the results loop
C33_Witness ==
    /\ dpc \in {"loop", "shutdown", "finished"}
    /\ futs = {}
    /\ \E w \in 1..Len(workers) :
         /\ workers[w].fstate = "done"
         /\ workers[w].result = "Load cancelled"

\* the place of a lock in the order _queue_lock, _workers_lock, _batch_lock
LockRank(lock) ==
    CASE lock = "_queue_lock" -> 1
      [] lock = "_workers_lock" -> 2
      [] OTHER -> 3

\* the thread is at an acquire of a lock that a thread holds
Blocked(t) ==
    /\ t \in DOMAIN lock_threads
    /\ Head(lock_threads[t].steps)[1] = "acquire"
    /\ Holders(Head(lock_threads[t].steps)[2]) # {}

\* C34: a thread that holds one of the three locks while it takes another
\* took them in the order queue lock, workers lock, batch lock; and there is
\* no set of threads each of which waits for a lock held by a thread of the
\* set, so no deadlock among the three locks.
C34_LockOrderNoDeadlock ==
    /\ \A t \in DOMAIN lock_threads :
         \A i, j \in 1..Len(lock_threads[t].held) :
            i < j => LockRank(lock_threads[t].held[i])
                     < LockRank(lock_threads[t].held[j])
    /\ \A D \in (SUBSET LockThreads) \ {{}} :
         \E t \in D :
            \/ ~Blocked(t)
            \/ Holders(Head(lock_threads[t].steps)[2]) \cap D = {}

\* a thread is inside add_file with _queue_lock and _batch_lock both held,
\* while a second thread waits for one of them and the third for the other
C34_Witness ==
    \E t \in DOMAIN lock_threads :
        /\ lock_threads[t].held = <<"_queue_lock", "_batch_lock">>
        /\ \E u, v \in LockThreads \ {t} :
             /\ u # v
             /\ Blocked(u) /\ Head(lock_threads[u].steps)[2] = "_queue_lock"
             /\ Blocked(v) /\ Head(lock_threads[v].steps)[2] = "_batch_lock"

\* C35: when the thread reports the file of an operation as loaded, an
\* operation of that file has status completed and progress 100 after the
\* report is handled.
C35_LoadedOperationCompleted ==
    [][ \A path \in Paths :
          OnFileLoaded(path)
          => \E i \in 1..Len(manager.active_operations) :
                /\ manager.active_operations'[i].path = path
                /\ manager.active_operations'[i].status = "completed"
                /\ manager.active_operations'[i].progress = 100 ]_vars

\* C40: every batch_progress(completed, total) the pool emits has
\* completed <= total.  The signal is emitted with the two counters by the
\* step that counts a task as completed.
C40_CompletedAtMostTotal ==
    [][ completed_tasks' = completed_tasks + 1
        => completed_tasks' <= total_tasks' ]_vars

(***************************************************************************)
(* Claims about LoaderWorker.                                              *)
(***************************************************************************)
\* the errors that are not to be retried
NotRetried == {"FileNotFoundError", "PermissionError"}

\* C13: an attempt that fails with a file-not-found or permission-denied
\* error, whichever step of _load_file raised it, is the last attempt of the
\* load: no backoff sleep follows it and load returns a failure.
C13_MissingOrDeniedNotRetried ==
    \A i \in 1..Len(lw_tried) :
        lw_tried[i][2] \in NotRetried =>
            /\ i = Len(lw_tried)
            /\ Len(lw.sleeps) < i
            /\ lw.fstate = "done"
            /\ lw.result \notin {"", "ok"}

\* every attempt made so far failed with an error that is to be retried
KeepsFailing ==
    \A i \in 1..Len(lw_tried) :
        lw_tried[i][1] # "return" /\ lw_tried[i][2] \notin NotRetried

\* the smaller of two numbers
\* C14: while the attempts keep failing with a retryable error, load makes
\* at most max_retries attempts, so it invokes the loader at most
\* max_retries times; it has slept backoff_base * 2^k after attempt k
\* (counted from 0) and not after the last attempt; and after max_retries
\* attempts it has returned a failure with the last error.
C14_RetriesWithExponentialBackoff ==
    KeepsFailing =>
        /\ Len(lw_tried) <= MaxRetries
        /\ Cardinality({ i \in 1..Len(lw_tried) : lw_tried[i][1] = "loader" })
              <= MaxRetries
        /\ lw.sleeps = [k \in 1..Min(Len(lw_tried), MaxRetries - 1) |-> 2 ^ (k - 1)]
        /\ Len(lw_tried) = MaxRetries =>
              lw.fstate = "done" /\ lw.result = "Load error"
        /\ (Len(lw_tried) < MaxRetries /\ ~lw.cancelled) => lw.fstate = "running"

\* max_retries attempts were made and each failed in the loader
C14_Witness ==
    /\ KeepsFailing
    /\ Len(lw_tried) = MaxRetries
    /\ \A i \in 1..Len(lw_tried) : lw_tried[i][1] = "loader"
    /\ lw.fstate = "done"
    /\ lw.sleeps = <<1, 2>>

(***************************************************************************)
(* Claims about UnifiedDocumentLoader.                                     *)
(***************************************************************************)
\* C12: the checksum of a load's metadata is set only after that load's
\* load_stream has read its source to the end without error: while the
\* stream is not exhausted, and after it raised or was dropped by its
\* consumer, the metadata object the load extracted has no checksum.
C12_ChecksumOnlyAfterExhaustion ==
    \A l \in DOMAIN streams :
        streams[l].checksum.set => streams[l].pc = "exhausted"

\* the codes TxtLoader._open_source gives the LoadError it builds
OpenErrorCodes == {"FILE_NOT_FOUND", "PERMISSION_DENIED", "FILE_OPEN_FAILED"}

\* the code of the error recorded last
LastErrorCode(errs) == IF errs = <<>> THEN "" ELSE errs[Len(errs)]

\* C24: when load_stream fails, the error recorded for the load carries the
\* code of the specific failure: UNSUPPORTED_SOURCE when the loader does
\* not support the source, FILE_NOT_FOUND, PERMISSION_DENIED or
\* FILE_OPEN_FAILED when _open_source fails, READ_FAILED when the read of
\* a chunk fails.
C24_ErrorCarriesSpecificCode ==
    [][ \A l \in Loads :
          /\ StreamUnsupported(l)
             => LastErrorCode(ld_errors') = "UNSUPPORTED_SOURCE"
          /\ StreamBeginFails(l, "_open_source")
             => LastErrorCode(ld_errors') \in OpenErrorCodes
          /\ ( /\ StreamNext(l)
               /\ streams'[l].pc = "raised"
               /\ ld_hasher' = ld_hasher )
             => LastErrorCode(ld_errors') = "READ_FAILED" ]_vars

\* C25: load_complete never raises, and when the stream failed after
\* yielding k chunks the LoadResult it returns has success false, a
\* non-empty errors list and as content exactly those k chunks in read
\* order.
C25_FailedLoadCompleteResult ==
    \A l \in DOMAIN ld_results :
        streams[l].pc = "raised"
        => /\ ~ld_results[l].success
           /\ ld_results[l].errors # <<>>
           /\ ld_results[l].content = ContentChunks(l)

\* C26: within one load_stream, two consecutive calls of the progress
\* callback at chunk boundaries are at least PROGRESS_CALLBACK_INTERVAL
\* apart, so that a stream that has lasted T has called it at most
\* ceil(T / interval) times there, plus once at the end of the stream.
C26_CallbacksAnIntervalApart ==
    \A l \in DOMAIN streams :
        LET calls == streams[l].calls
            T == ld_time - streams[l].started
        IN  /\ \A i \in 1..(Len(calls) - 1) :
                  calls[i + 1] - calls[i] >= PROGRESS_CALLBACK_INTERVAL
            /\ streams[l].pc # "returned"
               => Len(calls) + (IF streams[l].final THEN 1 ELSE 0)
                  <= ((T + PROGRESS_CALLBACK_INTERVAL - 1)
                         \div PROGRESS_CALLBACK_INTERVAL) + 1

\* C32: when load_stream has terminated, by reaching the end of the stream,
\* by a failure in open, read or processing, or because its consumer
\* dropped it, no file handle opened for that stream is still open.
C32_HandleClosedAtTermination ==
    \A l \in DOMAIN streams :
        streams[l].pc \in {"exhausted", "raised", "closed", "returned"}
        => streams[l].handle # "open"

\* the error codes the load itself recorded: one for a source the loader
\* cannot handle, one for a load that raised, none for a load that ended
OwnErrors(l) ==
    CASE streams[l].pc = "returned" -> <<"UNSUPPORTED_SOURCE">>
      [] streams[l].pc = "raised" -> <<"LOAD_FAILED">>
      [] OTHER -> <<>>

\* C38: the result load_complete returns for a source holds only the errors
\* and the metadata produced while that source was loaded: its errors are
\* the ones this load recorded, and its metadata is of this load or absent,
\* never what an earlier load on the same loader left behind.
C38_ResultOfThisLoadOnly ==
    \A l \in DOMAIN ld_results :
        /\ ld_results[l].errors = OwnErrors(l)
        /\ ld_results[l].metadata \in {0, l}

(***************************************************************************)
(* Claims about LazyFileSystemModel.                                       *)
(***************************************************************************)
\* C19: a prefetch call whose arguments are those of an earlier prefetch
\* call, with no reset of the model by setRootPath since that call, makes
\* no os.stat call, emits no batch_loaded signal and leaves loaded_batches
\* as it was.
C19_RepeatedPrefetchLoadsNothing ==
    [][ \A first \in Rows, last \in Rows :
            (Prefetch(first, last) /\ watched = <<first, last>>)
            => /\ PrefetchDoes(first, last).stats = 0
               /\ PrefetchDoes(first, last).signals = 0
               /\ loaded_batches' = loaded_batches ]_vars

\* a prefetch call has just repeated an earlier one, on a directory of
\* which every batch is loaded while the cache cannot hold every entry
C19_Witness ==
    /\ repeated
    /\ Cardinality(loaded_batches) > 1
    /\ total_count > CACHE_SIZE

\* the value of an entry in a metadata column, as sort compares it
ActualKey(entry, column) ==
    LET metadata == LoadMetadata(JoinPath(root_path, entry))
    IN  IF column = COL_SIZE THEN metadata.size
        ELSE IF column = COL_TYPE THEN StrRank(Lower(metadata.type))
        ELSE metadata.modified

\* ents is ordered by the values of the column, in the direction of order
OrderedBy(ents, column, order) ==
    \A i, j \in 1..Len(ents) :
        i < j => IF order = DescendingOrder
                 THEN ActualKey(ents[i], column) >= ActualKey(ents[j], column)
                 ELSE ActualKey(ents[i], column) <= ActualKey(ents[j], column)

\* C20: when sort on the size, type or modified column returns, the
\* metadata of every entry was at hand when the entries were reordered and
\* the entries are ordered by the values their files have in that column,
\* in the requested direction, whatever the number of entries.
C20_SortOrdersByActualValues ==
    [][ \A column \in {COL_SIZE, COL_TYPE, COL_MODIFIED},
           order \in {AscendingOrder, DescendingOrder} :
            (Sort(column, order) /\ ~SortDoes(column, order).raises)
            => /\ \A i \in 1..Len(entries) :
                     CacheHas(SortLoads(column),
                              JoinPath(root_path, entries[i]))
               /\ OrderedBy(entries', column, order) ]_vars

\* C36: for every batch index in loaded_batches, each row of that batch has
\* its metadata in the metadata cache, so that data for a row of a loaded
\* batch never has to answer 'Loading...'.
C36_LoadedBatchRowsCached ==
    \A batch_index \in loaded_batches :
        \A row \in 0..(total_count - 1) :
            row \div BATCH_SIZE = batch_index
            => CacheHas(metadata_cache, JoinPath(root_path, entries[row + 1]))

(***************************************************************************)
(* Claims about the metadata cache and the previews of the service.        *)
(***************************************************************************)
\* C21: after any sequence of _cache_metadata, _get_cached_metadata and
\* clear_cache calls the metadata cache holds at most cache_size entries,
\* its access-order list contains exactly the cached keys, once each, and
\* the cache holds the keys and values of a reference LRU map of capacity
\* cache_size in the same order, so that the key evicted on overflow is
\* the one least recently inserted or read.
C21_MetadataCacheIsLru ==
    /\ Cardinality(DOMAIN svc_metadata_cache) <= cache_size
    /\ Len(svc_access_order) = Cardinality(DOMAIN svc_metadata_cache)
    /\ { svc_access_order[i] : i \in 1..Len(svc_access_order) }
          = DOMAIN svc_metadata_cache
    /\ svc_access_order = [i \in 1..Len(ref_lru) |-> ref_lru[i].key]
    /\ \A i \in 1..Len(ref_lru) :
          svc_metadata_cache[ref_lru[i].key] = ref_lru[i].value

\* _cache_metadata has just evicted a key from a full cache, and not the
\* key inserted first, which has been read since and is still cached
C21_Witness ==
    /\ meta_evicted.key # 0
    /\ meta_evicted.key \notin DOMAIN svc_metadata_cache
    /\ meta_evicted.oldest # meta_evicted.key
    /\ meta_evicted.oldest \in DOMAIN svc_metadata_cache
    /\ Len(svc_access_order) = cache_size

\* C22: the text get_preview returns contains at most max_lines newline
\* characters and at most preview_max_size bytes, whatever the source and
\* the chunks the loader splits it into.
C22_PreviewWithinLimits ==
    \A p \in DOMAIN previews :
        previews[p].pc = "returned"
        => /\ CountNewlines(previews[p].preview_text) <= previews[p].max_lines
           /\ EncodedLen(previews[p].preview_text) <= preview_max_size

\* C23: when get_preview has returned or raised, the chunk_size of the
\* loader is the value it had before the call, on every exit path and also
\* when several calls on the loader overlapped: with no call in progress
\* the loader has the chunk_size it had before the calls.
C23_ChunkSizeRestored ==
    (\A p \in DOMAIN previews : previews[p].pc \in {"none", "returned", "raised"})
    => chunk_size = DEFAULT_CHUNK_SIZE
====
